---- MODULE Spec2Model ----
(***************************************************************************)
(* Model of the jax-js core runtime: refcounted backend buffer tables      *)
(* (CPUBackend, WasmBackend), the lazy Array handle with its pending       *)
(* executables, and the synchronous and asynchronous readback paths.       *)
(***************************************************************************)
EXTENDS Integers, Sequences, FiniteSets, Bags, TLC

(***************************************************************************)
(* Bounds of the model.                                                    *)
(***************************************************************************)
MaxSlot == 2      \* slots a backend hands out before malloc is no longer called
MaxRef == 2       \* highest reference count a direct incRef call drives a slot to
MaxSync == 3      \* Array handles created in one run without data()
MaxHandles == 2   \* Array handles created in one run
MaxCalls == 1     \* data() calls in flight at the same time
MaxRaw == 2       \* direct dispatch calls in one run

Backends == {"cpu", "wasm"}
Data0 == <<1, 2, 3, 4>>
NumElems == Len(Data0)
Zeros == <<0, 0, 0, 0>>
AluOps == {"Mul"}
ReshapeShapes == {<<2, -1>>}
TransposeAxes == {<<>>}

VARIABLES devices, limit, buffers, nextSlot, hist, shadow, arrays, pes, calls,
          lastCall, rawCount

\* The backend registry of backend.ts: the map of initialised backends, the
\* init calls in flight, and the bookkeeping of what was created and returned.
VARIABLES initializedBackends, created, inits, firstGot, rtCall

\* One application of a function of the library to an input: the function,
\* its input and what it returned.
VARIABLES probe

arrayVars ==
  <<devices, limit, buffers, nextSlot, hist, shadow, arrays, pes, calls,
    lastCall, rawCount>>

rtVars == <<initializedBackends, created, inits, firstGot, rtCall>>

extVars == <<rtVars, probe>>

vars == <<arrayVars, extVars>>

BackendTypes == {"cpu", "webgpu"}

NoRtCall ==
  [op |-> "none", req |-> {}, ok |-> {}, pre |-> {}, t |-> "none",
   result |-> {}, err |-> "none"]

\* The registry before the first init call
RtIdle ==
  /\ initializedBackends = <<>>
  /\ created = [t \in BackendTypes |-> 0]
  /\ inits = <<>>
  /\ firstGot = <<>>
  /\ rtCall = NoRtCall

NoProbe == [op |-> "none"]

ExtIdle == RtIdle /\ probe = NoProbe

(***************************************************************************)
(* Sequence helpers.                                                       *)
(***************************************************************************)
Range(s) == {s[i] : i \in 1..Len(s)}

RECURSIVE Prod(_)
Prod(s) == IF s = <<>> THEN 1 ELSE Head(s) * Prod(Tail(s))

RECURSIVE Dedup(_)
Dedup(s) ==
  IF s = <<>> THEN <<>>
  ELSE LET d == Dedup(SubSeq(s, 1, Len(s) - 1))
       IN IF s[Len(s)] \in Range(d) THEN d ELSE Append(d, s[Len(s)])

(***************************************************************************)
(* ShapeTracker: a list of views, each a shape with strides.  The Array    *)
(* class only uses fromShape, reshape, permute, contiguous, size, shape.   *)
(***************************************************************************)
SuffixStrides(shape) ==
  [k \in 1..Len(shape) |-> Prod(SubSeq(shape, k + 1, Len(shape)))]

ViewOf(shape) == [shape |-> shape, strides |-> SuffixStrides(shape)]

ViewContiguous(v) == v.strides = SuffixStrides(v.shape)

fromShape(shape) == <<ViewOf(shape)>>

stShape(st) == st[Len(st)].shape

stSize(st) == Prod(stShape(st))

contiguous(st) == Len(st) = 1 /\ ViewContiguous(st[1])

\* The dims 1..k of a view, size-1 dims dropped and dims that are contiguous
\* with each other merged: <<size, stride>> pairs.
RECURSIVE MergeDims(_, _)
MergeDims(v, k) ==
  IF k = 0 THEN <<>>
  ELSE LET rest == MergeDims(v, k - 1)
       IN IF v.shape[k] = 1 THEN rest
          ELSE IF rest # <<>> /\ rest[Len(rest)][2] = v.shape[k] * v.strides[k]
            THEN [rest EXCEPT ![Len(rest)] = <<rest[Len(rest)][1] * v.shape[k], v.strides[k]>>]
          ELSE Append(rest, <<v.shape[k], v.strides[k]>>)

\* The strides of newShape[1..n] over the merged dims groups[1..g], the last
\* group being filled up to acc already; <<-1>> when the new dims do not
\* split the groups evenly.
RECURSIVE SplitStrides(_, _, _, _, _)
SplitStrides(groups, g, acc, newShape, n) ==
  IF n = 0 THEN (IF g = 0 THEN <<>> ELSE <<-1>>)
  ELSE IF newShape[n] = 1
    THEN LET r == SplitStrides(groups, g, acc, newShape, n - 1)
         IN IF r = <<-1>> THEN r ELSE Append(r, 0)
  ELSE IF g = 0 \/ groups[g][1] % (acc * newShape[n]) # 0 THEN <<-1>>
  ELSE LET full == acc * newShape[n] = groups[g][1]
           r == SplitStrides(groups, IF full THEN g - 1 ELSE g,
                             IF full THEN 1 ELSE acc * newShape[n], newShape, n - 1)
       IN IF r = <<-1>> THEN r ELSE Append(r, groups[g][2] * acc)

\* View.reshape: the view of newShape over the same elements, when one view
\* can express it
reshapeView(v, newShape) ==
  IF v.shape = newShape THEN [ok |-> TRUE, view |-> v]
  ELSE IF ViewContiguous(v) THEN [ok |-> TRUE, view |-> ViewOf(newShape)]
  ELSE LET groups == MergeDims(v, Len(v.shape))
           r == SplitStrides(groups, Len(groups), 1, newShape, Len(newShape))
       IN IF r = <<-1>> THEN [ok |-> FALSE, view |-> v]
          ELSE [ok |-> TRUE, view |-> [shape |-> newShape, strides |-> r]]

stReshape(st, newShape) ==
  LET r == reshapeView(st[Len(st)], newShape)
  IN IF r.ok THEN [st EXCEPT ![Len(st)] = r.view]
     ELSE Append(st, ViewOf(newShape))

\* ShapeTracker.expand: a dim of size 1 is read at every index of the new dim
expand(st, newShape) ==
  LET v == st[Len(st)]
  IN [st EXCEPT ![Len(st)] =
        [shape |-> newShape,
         strides |-> [k \in 1..Len(newShape) |->
                        IF v.shape[k] = newShape[k] THEN v.strides[k] ELSE 0]]]

permute(st, axes) ==
  LET v == st[Len(st)]
  IN [st EXCEPT ![Len(st)] =
        [shape |-> [k \in 1..Len(axes) |-> v.shape[axes[k] + 1]],
         strides |-> [k \in 1..Len(axes) |-> v.strides[axes[k] + 1]]]]

\* Linear offset in the view below of the element at row-major position i.
ViewIndex(v, i) ==
  LET suf == SuffixStrides(v.shape)
      RECURSIVE Dot(_)
      Dot(k) == IF k > Len(v.shape) THEN 0
                ELSE ((i \div suf[k]) % v.shape[k]) * v.strides[k] + Dot(k + 1)
  IN Dot(1)

RECURSIVE StIndexFrom(_, _, _)
StIndexFrom(st, k, i) ==
  IF k = 0 THEN i ELSE StIndexFrom(st, k - 1, ViewIndex(st[k], i))

\* toAluExp(unravelAlu(shape, gidx)): the buffer offset of logical element i.
toAluExp(st, i) == StIndexFrom(st, Len(st), i)

isPermutation_mut(axes, n) ==
  Len(axes) = n /\ \A k \in 1..n : axes[k] = k - 1

isPermutation(axes, n) ==
  Len(axes) = n /\ Range(axes) = 0..(n - 1)

(***************************************************************************)
(* ALU expressions, as uniform records.                                    *)
(***************************************************************************)
AluConst(v) == [op |-> "Const", val |-> v, gid |-> 0, st |-> <<>>, src |-> <<>>]

AluBinary(op, a, b) ==
  [op |-> op, val |-> 0, gid |-> 0, st |-> <<>>, src |-> <<a, b>>]

\* where(valid, globalIndex(gid, index), 0); a tracker without masks is valid
\* at every index.
accessorGlobal(gid, st) ==
  [op |-> "Global", val |-> 0, gid |-> gid, st |-> st, src |-> <<>>]

\* where(valid, exp, 0) with valid constant true.
accessorAluExp(exp, st) == exp

RECURSIVE evaluate(_, _, _)
evaluate(exp, gidx, globals) ==
  CASE exp.op = "Const" -> exp.val
    [] exp.op = "Global" -> globals[exp.gid + 1][toAluExp(exp.st, gidx) + 1]
    [] exp.op = "Add" -> evaluate(exp.src[1], gidx, globals) + evaluate(exp.src[2], gidx, globals)
    [] exp.op = "Sub" -> evaluate(exp.src[1], gidx, globals) - evaluate(exp.src[2], gidx, globals)
    [] exp.op = "Mul" -> evaluate(exp.src[1], gidx, globals) * evaluate(exp.src[2], gidx, globals)

RECURSIVE ExpDepth(_)
ExpDepth(exp) ==
  IF exp.src = <<>> THEN 0
  ELSE 1 + (IF ExpDepth(exp.src[1]) > ExpDepth(exp.src[2])
              THEN ExpDepth(exp.src[1]) ELSE ExpDepth(exp.src[2]))

Kernel(nargs, size, exp) == [nargs |-> nargs, size |-> size, exp |-> exp]

(***************************************************************************)
(* Backend buffer table: slot -> [ref, buffer].  CPUBackend and            *)
(* WasmBackend share this code line for line.                              *)
(***************************************************************************)
Remove(tbl, slot) == [s \in DOMAIN tbl \ {slot} |-> tbl[s]]

Put(tbl, slot, v) ==
  [s \in DOMAIN tbl \cup {slot} |-> IF s = slot THEN v ELSE tbl[s]]

malloc_reuse(tbl, next, initialData) ==
  LET slot == CHOOSE s \in 1..next :
                s \notin DOMAIN tbl /\ \A t \in 1..(s - 1) : t \in DOMAIN tbl
  IN [tbl |-> Put(tbl, slot, [ref |-> 1, buffer |-> initialData]),
      next |-> IF slot = next THEN next + 1 ELSE next,
      slot |-> slot]

malloc_mut(tbl, next, initialData) ==
  [tbl |-> Put(tbl, next, [ref |-> 2, buffer |-> initialData]),
   next |-> next + 1,
   slot |-> next]

\* malloc: a fresh slot with reference count 1
malloc(tbl, next, initialData) ==
  [tbl |-> Put(tbl, next, [ref |-> 1, buffer |-> initialData]),
   next |-> next + 1,
   slot |-> next]

incRef_mut(tbl, slot) ==
  IF slot \notin DOMAIN tbl
    THEN [err |-> "none", tbl |-> tbl]
    ELSE [err |-> "none", tbl |-> [tbl EXCEPT ![slot].ref = @ + 1]]

incRef(tbl, slot) ==
  IF slot \notin DOMAIN tbl
    THEN [err |-> "SlotError", tbl |-> tbl]
    ELSE [err |-> "none", tbl |-> [tbl EXCEPT ![slot].ref = @ + 1]]

decRef(tbl, slot) ==
  IF slot \notin DOMAIN tbl
    THEN [err |-> "SlotError", tbl |-> tbl]
    ELSE LET t2 == [tbl EXCEPT ![slot].ref = @ - 1]
         IN [err |-> "none",
             tbl |-> IF t2[slot].ref = 0 THEN Remove(t2, slot) ELSE t2]

getBuffer(tbl, slot) ==
  IF slot \notin DOMAIN tbl
    THEN [err |-> "SlotError", buffer |-> <<>>]
    ELSE [err |-> "none", buffer |-> tbl[slot].buffer]

readSync(tbl, slot) == getBuffer(tbl, slot)

\* The loop of dispatch: outputArray[i] = exp.evaluate({gidx: i}, globals),
\* for i = 0 .. kernel.size - 1, writing the output buffer in place.
RECURSIVE DispatchLoop(_, _, _, _, _)
DispatchLoop(tbl, kernel, inputs, out, i) ==
  IF i >= kernel.size THEN tbl
  ELSE LET globals == [k \in 1..Len(inputs) |-> tbl[inputs[k]].buffer]
           v == evaluate(kernel.exp, i, globals)
       IN DispatchLoop([tbl EXCEPT ![out].buffer[i + 1] = v],
                       kernel, inputs, out, i + 1)

dispatch_mut(tbl, kernel, inputs, outputs) ==
  IF \E k \in 1..Len(inputs) : getBuffer(tbl, inputs[k]).err # "none"
    THEN [err |-> "SlotError", tbl |-> tbl]
  ELSE IF \E k \in 1..Len(outputs) : getBuffer(tbl, outputs[k]).err # "none"
    THEN [err |-> "SlotError", tbl |-> tbl]
  ELSE [err |-> "none",
        tbl |-> DispatchLoop(tbl, kernel, inputs, outputs[1], 1)]

dispatch(tbl, kernel, inputs, outputs) ==
  IF \E k \in 1..Len(inputs) : getBuffer(tbl, inputs[k]).err # "none"
    THEN [err |-> "SlotError", tbl |-> tbl]
  ELSE IF \E k \in 1..Len(outputs) : getBuffer(tbl, outputs[k]).err # "none"
    THEN [err |-> "SlotError", tbl |-> tbl]
  ELSE [err |-> "none",
        tbl |-> DispatchLoop(tbl, kernel, inputs, outputs[1], 0)]


\* Reference semantics of one dispatch: every output element is the kernel
\* expression evaluated over the input contents.
RefDispatch(mem, kernel, inputs, outputs) ==
  LET globals == [k \in 1..Len(inputs) |-> mem[inputs[k]]]
  IN [mem EXCEPT ![outputs[1]] =
        [i \in 1..Len(@) |->
           IF i <= kernel.size THEN evaluate(kernel.exp, i - 1, globals) ELSE @[i]]]

(***************************************************************************)
(* The world threaded through one handler: the backend tables, the         *)
(* pending executables, the bookkeeping, the backend calls made so far     *)
(* (trace), the error thrown (err) and the last slot returned (slot).      *)
(***************************************************************************)
World ==
  [buffers |-> buffers, nextSlot |-> nextSlot, hist |-> hist,
   shadow |-> shadow, pes |-> pes, trace |-> <<>>, err |-> "none",
   slot |-> 0, result |-> <<>>]

\* Bookkeeping of the calls made on a slot since its malloc: net is
\* 1 + (incRef calls) - (decRef calls), counted while it has stayed > 0.
HistNew == [net |-> 1, stayed |-> TRUE]

HistInc(h, slot) ==
  IF slot \in DOMAIN h /\ h[slot].stayed
    THEN [h EXCEPT ![slot].net = @ + 1]
    ELSE h

HistDec(h, slot) ==
  IF slot \in DOMAIN h /\ h[slot].stayed
    THEN [h EXCEPT ![slot].net = @ - 1,
                   ![slot].stayed = (h[slot].net - 1 > 0)]
    ELSE h

WMalloc(W, b, initialData) ==
  LET r == malloc(W.buffers[b], W.nextSlot[b], initialData)
  IN [W EXCEPT !.buffers[b] = r.tbl,
               !.nextSlot[b] = r.next,
               !.slot = r.slot,
               !.hist[b] = Put(@, r.slot, HistNew),
               !.shadow[b] = Put(@, r.slot, initialData)]

WIncRef(W, b, slot) ==
  LET r == incRef(W.buffers[b], slot)
  IN [W EXCEPT !.buffers[b] = r.tbl, !.err = r.err,
               !.hist[b] = HistInc(@, slot)]

WDecRef(W, b, slot) ==
  LET r == decRef(W.buffers[b], slot)
  IN [W EXCEPT !.buffers[b] = r.tbl, !.err = r.err,
               !.hist[b] = HistDec(@, slot),
               !.shadow[b] = [s \in DOMAIN @ \cap DOMAIN r.tbl |-> @[s]]]

WReadSync(W, b, slot) ==
  LET r == readSync(W.buffers[b], slot)
  IN [W EXCEPT !.err = r.err, !.result = r.buffer,
               !.trace = Append(@, <<"read", slot>>)]

WDispatchKernel(W, b, kernel, inputs, outputs) ==
  LET r == dispatch(W.buffers[b], kernel, inputs, outputs)
  IN IF r.err # "none"
       THEN [W EXCEPT !.err = r.err]
       ELSE [W EXCEPT !.buffers[b] = r.tbl,
                      !.shadow[b] = RefDispatch(@, kernel, inputs, outputs)]

(***************************************************************************)
(* PendingExecute.                                                         *)
(***************************************************************************)
PendingExecute(kernel, inputs, outputs) ==
  [kernel |-> kernel, inputs |-> inputs, outputs |-> outputs,
   prepared |-> FALSE, submitted |-> FALSE, promise |-> "none",
   dispatched |-> FALSE]

\* prepareSync: backend.prepareSync(kernel) unless already prepared
prepareSync(W, p) ==
  IF W.pes[p].prepared THEN W
  ELSE [W EXCEPT !.pes[p].prepared = TRUE,
                 !.trace = Append(@, <<"prepare", p>>)]

\* prepare, up to its first await: starts backend.prepare(kernel) unless the
\* executable is prepared or a prepare is already under way
prepare(W, p) ==
  IF W.pes[p].prepared \/ W.pes[p].promise # "none" THEN W
  ELSE [W EXCEPT !.pes[p].promise = "inflight",
                 !.trace = Append(@, <<"prepare", p>>)]

\* submit: dispatches the prepared executable
submit(W, b, p) ==
  IF W.pes[p].submitted THEN W
  ELSE IF ~W.pes[p].prepared THEN [W EXCEPT !.err = "Error"]
  ELSE LET W1 == [W EXCEPT !.trace = Append(@, <<"dispatch", p>>)]
           W2 == WDispatchKernel(W1, b, W.pes[p].kernel,
                                 W.pes[p].inputs, W.pes[p].outputs)
       IN IF W2.err # "none" THEN W2
          ELSE [W2 EXCEPT !.pes[p].dispatched = TRUE]

(***************************************************************************)
(* Array handles.                                                          *)
(***************************************************************************)
ExpSource(exp) == [isExp |-> TRUE, exp |-> exp, slot |-> 0]

SlotSource(slot) == [isExp |-> FALSE, exp |-> AluConst(0), slot |-> slot]

\* new Array(source, st, dtype, backend, pending): the pending set keeps the
\* first occurrence of each executable, in insertion order
NewArray(source, st, dtype, b, pending) ==
  [source |-> source, st |-> st, dtype |-> dtype, backend |-> b,
   pendingSet |-> Dedup(pending), alive |-> TRUE]

\* get #pending: drops the submitted entries from the set and lists the rest
pending(P, a) == SelectSeq(a.pendingSet, LAMBDA p : ~P[p].submitted)


NeedsCopy_mut(a) == TRUE

\* "Only realize if the ShapeTracker is non-contiguous."
NeedsCopy(a) == ~contiguous(a.st)

\* Array.#realize, for handle h
realize(W, A, h) ==
  LET a == A[h]
      b == a.backend
      size == stSize(a.st)
  IN IF a.source.isExp
       THEN LET exp == accessorAluExp(a.source.exp, a.st)
                kernel == Kernel(0, size, exp)
                W1 == WMalloc(W, b, Zeros)
                pendingItem == PendingExecute(kernel, <<>>, <<W1.slot>>)
                W2 == [W1 EXCEPT !.pes = Append(@, pendingItem)]
            IN [W |-> W2,
                A |-> [A EXCEPT ![h].source = SlotSource(W1.slot),
                                ![h].st = fromShape(stShape(a.st)),
                                ![h].pendingSet = <<Len(W2.pes)>>]]
     ELSE IF ~NeedsCopy(a) THEN [W |-> W, A |-> A]
     ELSE LET exp == accessorGlobal(0, a.st)
              kernel == Kernel(1, size, exp)
              W1 == WMalloc(W, b, Zeros)
              pendingItem == PendingExecute(kernel, <<a.source.slot>>, <<W1.slot>>)
              W2 == [W1 EXCEPT !.pes = Append(@, pendingItem)]
          IN [W |-> W2,
              A |-> [A EXCEPT ![h].source = SlotSource(W1.slot),
                              ![h].st = fromShape(stShape(a.st)),
                              ![h].pendingSet = Dedup(Append(@, Len(W2.pes)))]]

\* The loop of dataSync: prepareSync then submit, in the order of the list
RECURSIVE SyncLoop(_, _, _)
SyncLoop(W, b, ps) ==
  IF ps = <<>> \/ W.err # "none" THEN W
  ELSE SyncLoop(submit(prepareSync(W, Head(ps)), b, Head(ps)), b, Tail(ps))

RECURSIVE SubmitLoop_mut(_, _, _)
SubmitLoop_mut(W, b, ps) ==
  IF ps = <<>> \/ W.err # "none" THEN W
  ELSE SubmitLoop_mut(submit(W, b, ps[Len(ps)]), b, SubSeq(ps, 1, Len(ps) - 1))

\* The loop of data(): submit, in the order of the list
RECURSIVE SubmitLoop(_, _, _)
SubmitLoop(W, b, ps) ==
  IF ps = <<>> \/ W.err # "none" THEN W
  ELSE SubmitLoop(submit(W, b, Head(ps)), b, Tail(ps))

\* pending.map((exe) => exe.prepare(backend)), each up to its first await
RECURSIVE PrepareAll(_, _)
PrepareAll(W, ps) ==
  IF ps = <<>> THEN W ELSE PrepareAll(prepare(W, Head(ps)), Tail(ps))

(***************************************************************************)
(* State.                                                                  *)
(***************************************************************************)
NoCall ==
  [op |-> "init", b |-> "cpu", h |-> 0, h2 |-> 0, slots |-> {},
   err |-> "none", trace |-> <<>>, result |-> <<>>]

Call(op, b, h, h2, slots, W) ==
  [op |-> op, b |-> b, h |-> h, h2 |-> h2, slots |-> slots,
   err |-> W.err, trace |-> W.trace, result |-> W.result]

Init ==
  /\ devices \in {{b} : b \in Backends}
  /\ limit = MaxHandles
  /\ buffers = [b \in Backends |-> <<>>]
  /\ nextSlot = [b \in Backends |-> 1]
  /\ hist = [b \in Backends |-> <<>>]
  /\ shadow = [b \in Backends |-> <<>>]
  /\ arrays = <<>>
  /\ pes = <<>>
  /\ calls = EmptyBag
  /\ lastCall = NoCall
  /\ rawCount = 0
  /\ ExtIdle

Commit(W) ==
  /\ buffers' = W.buffers
  /\ nextSlot' = W.nextSlot
  /\ hist' = W.hist
  /\ shadow' = W.shadow
  /\ pes' = W.pes

(***************************************************************************)
(* Direct calls of the Backend interface.                                  *)
(***************************************************************************)
RawInits == {"none", "data", "short"}

BackendMalloc(b, init) ==
  /\ nextSlot[b] <= MaxSlot
  /\ LET W == IF init = "short" THEN [World EXCEPT !.err = "Error"]
              ELSE WMalloc(World, b, IF init = "data" THEN Data0 ELSE Zeros)
     IN /\ Commit(W)
        /\ lastCall' = Call("malloc", b, 0, 0, {W.slot} \ {0}, W)
  /\ UNCHANGED <<extVars, devices, limit, arrays, calls, rawCount>>

BackendIncRef(b, slot) ==
  /\ slot \in DOMAIN buffers[b] => buffers[b][slot].ref < MaxRef
  /\ LET W == WIncRef(World, b, slot)
     IN /\ Commit(W)
        /\ lastCall' = Call("incRef", b, 0, 0, {slot}, W)
  /\ UNCHANGED <<extVars, devices, limit, arrays, calls, rawCount>>

BackendDecRef(b, slot) ==
  /\ LET W == WDecRef(World, b, slot)
     IN /\ Commit(W)
        /\ lastCall' = Call("decRef", b, 0, 0, {slot}, W)
  /\ UNCHANGED <<extVars, devices, limit, arrays, calls, rawCount>>

BackendReadSync(b, slot) ==
  /\ LET W == WReadSync(World, b, slot)
     IN /\ Commit(W)
        /\ lastCall' = Call("readSync", b, 0, 0, {slot}, W)
  /\ UNCHANGED <<extVars, devices, limit, arrays, calls, rawCount>>


\* The kernel of the backend tests: arg1 * arg2', with arg2 read through a
\* permuted tracker.
RawSt == permute(fromShape(<<2, 2>>), <<1, 0>>)

RawKernels ==
  {Kernel(2, NumElems,
          AluBinary(op, accessorGlobal(0, fromShape(<<NumElems>>)),
                        accessorGlobal(1, RawSt))) : op \in {"Mul"}}

BackendDispatch(b, kernel, inputs, out) ==
  /\ rawCount < MaxRaw
  /\ out \notin Range(inputs)
  /\ LET W == WDispatchKernel(World, b, kernel, inputs, <<out>>)
     IN /\ Commit(W)
        /\ lastCall' = Call("dispatch", b, 0, 0, Range(inputs) \cup {out}, W)
  /\ rawCount' = rawCount + 1
  /\ UNCHANGED <<extVars, devices, limit, arrays, calls>>

(***************************************************************************)
(* Array construction.                                                     *)
(***************************************************************************)
CreateShapes == {<<2, 2>>}

DTypes == {"float32"}

\* Array.zeros / Array.ones
ArrayConst(v, shape, b) ==
  /\ Len(arrays) < limit
  /\ arrays' = Append(arrays,
                 NewArray(ExpSource(AluConst(v)), fromShape(shape), "float32", b, <<>>))
  /\ lastCall' = Call(IF v = 0 THEN "zeros" ELSE "ones", b, Len(arrays) + 1, 0, {}, World)
  /\ UNCHANGED <<extVars, devices, limit, buffers, nextSlot, hist, shadow, pes, calls, rawCount>>

\* arrayFromData(data, {backend})
ArrayFromData(dtype, b) ==
  /\ Len(arrays) < limit
  /\ LET W == WMalloc(World, b, Data0)
     IN /\ Commit(W)
        /\ arrays' = Append(arrays,
                       NewArray(SlotSource(W.slot), fromShape(<<NumElems>>), dtype, b, <<>>))
        /\ lastCall' = Call("arrayFromData", b, Len(arrays) + 1, 0, {W.slot}, W)
  /\ UNCHANGED <<extVars, devices, limit, calls, rawCount>>

(***************************************************************************)
(* Movement operations.                                                    *)
(***************************************************************************)
\* Array.#reshape(st): a new handle on the same source; reading #pending
\* trims the pending set of this handle
ReshapeIn(A, P, h, st) ==
  LET a == A[h]
      pnd == pending(P, a)
  IN Append([A EXCEPT ![h].pendingSet = pnd],
            NewArray(a.source, st, a.dtype, a.backend, pnd))

ReshapeTo(h, st) == ReshapeIn(arrays, pes, h, st)

InferShape_mut(size, shape) ==
  IF -1 \notin Range(shape) THEN shape
  ELSE LET autoIdx == CHOOSE i \in 1..Len(shape) :
                        shape[i] = -1 /\ \A j \in 1..(i - 1) : shape[j] # -1
       IN [shape EXCEPT ![autoIdx] = size]

\* The shape reshape passes on, or <<>> when it throws
InferShape(size, shape) ==
  IF -1 \notin Range(shape) THEN shape
  ELSE LET autoIdx == CHOOSE i \in 1..Len(shape) :
                        shape[i] = -1 /\ \A j \in 1..(i - 1) : shape[j] # -1
           d == -Prod(shape)
       IN IF d = 0 THEN <<>>
          ELSE IF d < 0 THEN <<>>
          ELSE IF size % d # 0 THEN <<>>
          ELSE [shape EXCEPT ![autoIdx] = size \div d]

\* Array.reshape(shape): the handles after the call, the new one last
reshape(A, P, h, shape) ==
  LET sh == InferShape(stSize(A[h].st), shape)
  IN IF sh = <<>> THEN [err |-> "Error", A |-> A]
     ELSE IF Prod(sh) # stSize(A[h].st) THEN [err |-> "TypeError", A |-> A]
     ELSE [err |-> "none", A |-> ReshapeIn(A, P, h, stReshape(A[h].st, sh))]

\* Array.transpose(axes): the handles after the call, the new one last
transpose(A, P, h, axes) ==
  LET ndim == Len(stShape(A[h].st))
      ax == IF axes = <<>> THEN [k \in 1..ndim |-> ndim - k] ELSE axes
  IN IF ~isPermutation(ax, ndim) THEN [err |-> "Error", A |-> A]
     ELSE [err |-> "none", A |-> ReshapeIn(A, P, h, permute(A[h].st, ax))]

ArrayReshape(h, shape) ==
  /\ h \in 1..Len(arrays) /\ arrays[h].alive
  /\ Len(arrays) < limit
  /\ LET r == reshape(arrays, pes, h, shape)
     IN /\ arrays' = r.A
        /\ lastCall' = IF r.err # "none"
                         THEN Call("reshape", arrays[h].backend, 0, 0, {},
                                   [World EXCEPT !.err = r.err])
                         ELSE Call("reshape", arrays[h].backend, h, Len(arrays) + 1, {}, World)
  /\ UNCHANGED <<extVars, devices, limit, buffers, nextSlot, hist, shadow, pes, calls, rawCount>>

ArrayTranspose(h, axes) ==
  /\ h \in 1..Len(arrays) /\ arrays[h].alive
  /\ Len(arrays) < limit
  /\ LET r == transpose(arrays, pes, h, axes)
     IN /\ arrays' = r.A
        /\ lastCall' = IF r.err # "none"
                         THEN Call("transpose", arrays[h].backend, 0, 0, {},
                                   [World EXCEPT !.err = "Error"])
                         ELSE Call("transpose", arrays[h].backend, h, Len(arrays) + 1, {}, World)
  /\ UNCHANGED <<extVars, devices, limit, buffers, nextSlot, hist, shadow, pes, calls, rawCount>>

(***************************************************************************)
(* Array.#binary (add, sub, mul).                                          *)
(***************************************************************************)
\* The accessor of one operand and the inputs list after it
BinarySrc(ar, inputs) ==
  IF ar.source.isExp
    THEN [src |-> accessorAluExp(ar.source.exp, ar.st), inputs |-> inputs]
    ELSE [src |-> accessorGlobal(Len(inputs), ar.st),
          inputs |-> Append(inputs, ar.source.slot)]

BothAluExp_mut(this, other) == FALSE

\* "Short circuit if both are already AluExp."
BothAluExp(this, other) == this.source.isExp /\ other.source.isExp

BinaryPending_mut(p1, p2, new) == p1 \o <<new>>

\* [...this.#pending, ...other.#pending, new PendingExecute(...)]
BinaryPending(p1, p2, new) == p1 \o p2 \o <<new>>

Mismatch_mut(this, other) == stShape(this.st) # stShape(other.st)

\* The two tests #binary starts with
Mismatch(this, other) ==
  stShape(this.st) # stShape(other.st) \/ this.dtype # other.dtype

binary(W, A, op, h, o) ==
  LET this == A[h]
      other == A[o]
  IN IF Mismatch(this, other)
       THEN [W |-> [W EXCEPT !.err = "Error"], A |-> A]
     ELSE IF BothAluExp(this, other)
       THEN [W |-> W,
             A |-> Append(A, NewArray(
                     ExpSource(AluBinary(op, this.source.exp, other.source.exp)),
                     this.st, this.dtype, this.backend, <<>>))]
     ELSE LET s1 == BinarySrc(this, <<>>)
              s2 == BinarySrc(other, s1.inputs)
              kernel == Kernel(2, stSize(this.st), AluBinary(op, s1.src, s2.src))
              W1 == WMalloc(W, this.backend, Zeros)
              pe == PendingExecute(kernel, s2.inputs, <<W1.slot>>)
              W2 == [W1 EXCEPT !.pes = Append(@, pe)]
              p1 == pending(W.pes, this)
              A1 == [A EXCEPT ![h].pendingSet = p1]
              p2 == pending(W.pes, A1[o])
              A2 == [A1 EXCEPT ![o].pendingSet = p2]
          IN [W |-> W2,
              A |-> Append(A2, NewArray(
                      SlotSource(W1.slot), fromShape(stShape(this.st)),
                      this.dtype, this.backend,
                      BinaryPending(p1, p2, Len(W2.pes))))]

ArrayBinary(op, h, o) ==
  /\ h \in 1..Len(arrays) /\ arrays[h].alive
  /\ o \in 1..Len(arrays) /\ arrays[o].alive
  /\ Len(arrays) < limit
  /\ LET r == binary(World, arrays, op, h, o)
     IN /\ Commit(r.W)
        /\ arrays' = r.A
        /\ lastCall' = IF r.W.err # "none"
                         THEN Call("binary", arrays[h].backend, h, o, {}, r.W)
                         ELSE Call("binary", arrays[h].backend, h, o,
                                   IF r.W.slot = 0 THEN {} ELSE {r.W.slot}, r.W)
  /\ UNCHANGED <<extVars, devices, limit, calls, rawCount>>

(***************************************************************************)
(* Readback.                                                               *)
(***************************************************************************)
\* Array.dataSync
dataSync(W, A, h) ==
  LET r == realize([W EXCEPT !.trace = Append(@, <<"realize", h>>)], A, h)
      b == A[h].backend
      pnd == pending(r.W.pes, r.A[h])
      A1 == [r.A EXCEPT ![h].pendingSet = pnd]
      W1 == SyncLoop(r.W, b, pnd)
      W2 == IF W1.err # "none" THEN W1 ELSE WReadSync(W1, b, A1[h].source.slot)
  IN [W |-> W2, A |-> A1]

ArrayDataSync(h) ==
  /\ h \in 1..Len(arrays) /\ arrays[h].alive
  /\ LET r == dataSync(World, arrays, h)
     IN /\ Commit(r.W)
        /\ arrays' = r.A
        /\ lastCall' = Call("dataSync", arrays[h].backend, h, 0,
                            {r.A[h].source.slot}, r.W)
  /\ UNCHANGED <<extVars, devices, limit, calls, rawCount>>

\* Array.data, up to its first await: realize, list the pending executables
\* and start preparing all of them
dataStart(W, A, h) ==
  LET r == realize([W EXCEPT !.trace = Append(@, <<"realize", h>>)], A, h)
      pnd == pending(r.W.pes, r.A[h])
      A1 == [r.A EXCEPT ![h].pendingSet = pnd]
      awaiting == {p \in Range(pnd) : ~r.W.pes[p].prepared}
      W1 == PrepareAll(r.W, pnd)
  IN [W |-> W1, A |-> A1,
      call |-> [h |-> h, pending |-> pnd, awaiting |-> awaiting,
                trace |-> W1.trace]]

ArrayDataStart(h) ==
  /\ h \in 1..Len(arrays) /\ arrays[h].alive
  /\ BagCardinality(calls) < MaxCalls
  /\ LET r == dataStart(World, arrays, h)
     IN /\ Commit(r.W)
        /\ arrays' = r.A
        /\ calls' = calls (+) SetToBag({r.call})
        /\ lastCall' = Call("data.start", arrays[h].backend, h, 0,
                            {r.A[h].source.slot}, r.W)
  /\ UNCHANGED <<extVars, devices, limit, rawCount>>

\* The continuation of an asynchronous backend.prepare: this.prepared = exe
PrepareResolve(p) ==
  /\ p \in 1..Len(pes) /\ pes[p].promise = "inflight"
  /\ pes' = [pes EXCEPT ![p].prepared = TRUE, ![p].promise = "done"]
  /\ lastCall' = Call("prepare.resolve", "cpu", 0, p, {}, World)
  /\ UNCHANGED <<extVars, devices, limit, buffers, nextSlot, hist, shadow, arrays, calls, rawCount>>

\* Array.data after Promise.all: submit every listed executable, then read
dataFinish(W, A, c) ==
  LET b == A[c.h].backend
      W1 == SubmitLoop([W EXCEPT !.trace = c.trace], b, c.pending)
  IN IF W1.err # "none" THEN W1 ELSE WReadSync(W1, b, A[c.h].source.slot)

ArrayDataFinish(c) ==
  /\ BagIn(c, calls)
  /\ \A p \in c.awaiting : pes[p].promise = "done"
  /\ LET W == dataFinish(World, arrays, c)
     IN /\ Commit(W)
        /\ lastCall' = Call("data", arrays[c.h].backend, c.h, 0,
                            {arrays[c.h].source.slot}, W)
  /\ calls' = calls (-) SetToBag({c})
  /\ UNCHANGED <<extVars, devices, limit, arrays, rawCount>>

(***************************************************************************)
(* A handle going out of scope.  Array has no destructor and calls decRef  *)
(* nowhere: the backend is left as it is.                                  *)
(***************************************************************************)
\* What is left of a handle once it is released
Released ==
  [source |-> ExpSource(AluConst(0)), st |-> <<>>, dtype |-> "float32",
   backend |-> "cpu", pendingSet |-> <<>>, alive |-> FALSE]

ArrayRelease(h) ==
  /\ h \in 1..Len(arrays) /\ arrays[h].alive
  /\ \A c \in BagToSet(calls) : c.h # h
  /\ arrays' = [arrays EXCEPT ![h] = Released]
  /\ lastCall' = Call("release", arrays[h].backend, h, 0, {}, World)
  /\ UNCHANGED <<extVars, devices, limit, buffers, nextSlot, hist, shadow, pes, calls,
                 rawCount>>

(***************************************************************************)
(* Specifications.                                                         *)
(***************************************************************************)
Slots == 1..MaxSlot
Handles == 1..MaxHandles

NextBackend ==
  \/ \E b \in devices, init \in RawInits : BackendMalloc(b, init)
  \/ \E b \in devices, s \in Slots : BackendIncRef(b, s)
  \/ \E b \in devices, s \in Slots : BackendDecRef(b, s)
  \/ \E b \in devices, s \in Slots : BackendReadSync(b, s)
  \/ \E b \in devices, k \in RawKernels, i1 \in Slots, i2 \in Slots, out \in Slots :
       BackendDispatch(b, k, <<i1, i2>>, out)

NextArray ==
  \/ \E v \in {1}, sh \in CreateShapes, b \in devices : ArrayConst(v, sh, b)
  \/ \E d \in DTypes, b \in devices : ArrayFromData(d, b)
  \/ \E op \in AluOps, h \in Handles, o \in Handles : ArrayBinary(op, h, o)
  \/ \E h \in Handles : ArrayDataSync(h)
  \/ \E h \in Handles : ArrayDataStart(h)
  \/ \E p \in Handles : PrepareResolve(p)
  \/ \E c \in BagToSet(calls) : ArrayDataFinish(c)

\* Handles are built, read back synchronously and dropped.
NextRelease ==
  \/ \E v \in {1}, sh \in CreateShapes, b \in devices : ArrayConst(v, sh, b)
  \/ \E d \in DTypes, b \in devices : ArrayFromData(d, b)
  \/ \E op \in AluOps, h \in Handles, o \in Handles : ArrayBinary(op, h, o)
  \/ \E h \in Handles : ArrayDataSync(h)
  \/ \E h \in Handles : ArrayRelease(h)

SpecBackend == Init /\ [][NextBackend]_vars

InitArray == Init /\ devices = {"cpu"}

InitSync ==
  /\ devices = {"cpu"}
  /\ limit = MaxSync
  /\ buffers = [b \in Backends |-> <<>>]
  /\ nextSlot = [b \in Backends |-> 1]
  /\ hist = [b \in Backends |-> <<>>]
  /\ shadow = [b \in Backends |-> <<>>]
  /\ arrays = <<>>
  /\ pes = <<>>
  /\ calls = EmptyBag
  /\ lastCall = NoCall
  /\ rawCount = 0
  /\ ExtIdle

NextSync ==
  \/ \E v \in {1}, sh \in CreateShapes, b \in devices : ArrayConst(v, sh, b)
  \/ \E d \in DTypes, b \in devices : ArrayFromData(d, b)
  \/ \E h \in 1..limit, sh \in ReshapeShapes : ArrayReshape(h, sh)
  \/ \E h \in 1..limit, ax \in TransposeAxes : ArrayTranspose(h, ax)
  \/ \E op \in AluOps, h \in 1..limit, o \in 1..limit : ArrayBinary(op, h, o)
  \/ \E h \in 1..limit : ArrayDataSync(h)

SpecSync == InitSync /\ [][NextSync]_vars

SpecArray == InitArray /\ [][NextArray]_vars

SpecRelease == InitArray /\ [][NextRelease]_vars


(***************************************************************************)
(* Properties.                                                             *)
(***************************************************************************)
IsDispatch(e) == e[1] = "dispatch"

Dispatches(t) ==
  LET d == SelectSeq(t, IsDispatch) IN [i \in 1..Len(d) |-> d[i][2]]

\* C1: on every backend malloc returns a slot with reference count 1, and a
\* slot is in the buffer table exactly while 1 + incRefs - decRefs has stayed
\* above 0 since its malloc; the count of a slot in the table is that number
\* and is at least 1.
C1_RefcountTable ==
  /\ \A b \in Backends :
       /\ DOMAIN buffers[b] \subseteq DOMAIN hist[b]
       /\ DOMAIN hist[b] = 1..(nextSlot[b] - 1)
       /\ \A s \in DOMAIN hist[b] :
            (s \in DOMAIN buffers[b]) <=> hist[b][s].stayed
       /\ \A s \in DOMAIN buffers[b] :
            /\ buffers[b][s].ref >= 1
            /\ buffers[b][s].ref = hist[b][s].net
  /\ (lastCall.op = "malloc" /\ lastCall.err = "none") =>
       \A s \in lastCall.slots : buffers[lastCall.b][s].ref = 1

C1_Witness ==
  \E b \in Backends : \E s, t \in DOMAIN hist[b] :
    /\ s \notin DOMAIN buffers[b]
    /\ t \in DOMAIN buffers[b] /\ buffers[b][t].ref = 2
    /\ lastCall.op = "decRef" /\ lastCall.err = "none"

UseOps == {"incRef", "decRef", "readSync", "dispatch"}

\* C2: incRef, decRef, readSync or dispatch on a slot that is not allocated
\* fails with SlotError and leaves the buffer table as it was.
C2_FreedUseFails ==
  [][(lastCall'.op \in UseOps
        /\ ~(lastCall'.slots \subseteq DOMAIN buffers[lastCall'.b]))
      => (/\ lastCall'.err = "SlotError"
          /\ buffers' = buffers
          /\ nextSlot' = nextSlot)]_vars

C2_Witness ==
  /\ lastCall.op = "dispatch" /\ lastCall.err = "SlotError"
  /\ \E s \in lastCall.slots :
       s \in DOMAIN hist[lastCall.b] /\ s \notin DOMAIN buffers[lastCall.b]
  /\ \E s \in lastCall.slots : s \in DOMAIN buffers[lastCall.b]

ReadOps == {"dataSync", "data"}

IsPrefix(d, q) == Len(d) <= Len(q) /\ d = SubSeq(q, 1, Len(d))

\* C4: data() and dataSync() realize first, dispatch the pending executables
\* of the handle in the insertion order of its pending set, each one prepared
\* by then, and call the backend read last, after all of them.
C4_ReadbackOrder ==
  /\ \A p \in 1..Len(pes) : pes[p].dispatched => pes[p].prepared
  /\ lastCall.op \in ReadOps =>
       LET t == lastCall.trace
           h == lastCall.h
           q == arrays[h].pendingSet
       IN /\ t # <<>> /\ t[1] = <<"realize", h>>
          /\ IsPrefix(Dispatches(t), q)
          /\ lastCall.err = "none" => Dispatches(t) = q
          /\ \A k \in 1..Len(t) :
               /\ t[k][1] = "read" =>
                    /\ k = Len(t)
                    /\ Dispatches(t) = q
                    /\ t[k][2] = arrays[h].source.slot
               /\ t[k][1] = "prepare" =>
                    \A j \in 1..(k - 1) : t[j] # <<"dispatch", t[k][2]>>
               /\ t[k][1] = "dispatch" => pes[t[k][2]].prepared

C4_Witness ==
  /\ lastCall.op = "data" /\ lastCall.err = "none"
  /\ Len(arrays[lastCall.h].pendingSet) = 2
  /\ Len(lastCall.trace) = 5
  /\ lastCall.trace[5][1] = "read"

\* C5: a binary op on two handles with ALU-expression sources returns a
\* handle with an ALU-expression source, allocates no buffer and creates no
\* pending executable; reading a handle with an ALU-expression source
\* allocates exactly one buffer and dispatches exactly once.
C5_Fusion ==
  [][/\ (/\ lastCall'.op = "binary" /\ lastCall'.err = "none"
         /\ arrays[lastCall'.h].source.isExp
         /\ arrays[lastCall'.h2].source.isExp)
        => (/\ Len(arrays') = Len(arrays) + 1
            /\ arrays'[Len(arrays')].source.isExp
            /\ arrays'[Len(arrays')].pendingSet = <<>>
            /\ buffers' = buffers
            /\ nextSlot' = nextSlot
            /\ pes' = pes)
     /\ (/\ lastCall'.op = "dataSync"
         /\ arrays[lastCall'.h].source.isExp)
        => (/\ lastCall'.err = "none"
            /\ nextSlot'[lastCall'.b] = nextSlot[lastCall'.b] + 1
            /\ DOMAIN buffers'[lastCall'.b] =
                 DOMAIN buffers[lastCall'.b] \cup {nextSlot[lastCall'.b]}
            /\ Len(pes') = Len(pes) + 1
            /\ Len(Dispatches(lastCall'.trace)) = 1)]_vars

C5_Witness ==
  /\ lastCall.op = "dataSync" /\ lastCall.err = "none"
  /\ Len(pes) = 1
  /\ pes[1].kernel.nargs = 0 /\ ExpDepth(pes[1].kernel.exp) >= 2
  /\ pes[1].dispatched
  /\ Cardinality(DOMAIN buffers[lastCall.b]) = 1
  /\ Len(arrays) = 3

Unsubmitted(P, a) == {p \in Range(a.pendingSet) : ~P[p].submitted}

\* C6: a binary op with a buffer-backed operand allocates exactly one buffer
\* and creates exactly one pending executable, not prepared, submitted or
\* dispatched; the result is backed by that buffer and its pending set is the
\* union of the operands' pending sets plus the new executable.
C6_BinaryPending ==
  [][(/\ lastCall'.op = "binary" /\ lastCall'.err = "none"
      /\ ~(arrays[lastCall'.h].source.isExp /\ arrays[lastCall'.h2].source.isExp))
     => LET b == lastCall'.b
            new == Len(pes) + 1
            res == arrays'[Len(arrays')]
        IN /\ Len(arrays') = Len(arrays) + 1
           /\ nextSlot'[b] = nextSlot[b] + 1
           /\ DOMAIN buffers'[b] = DOMAIN buffers[b] \cup {nextSlot[b]}
           /\ \A s \in DOMAIN buffers[b] : buffers'[b][s] = buffers[b][s]
           /\ buffers'[b][nextSlot[b]].ref = 1
           /\ Len(pes') = new
           /\ SubSeq(pes', 1, Len(pes)) = pes
           /\ ~pes'[new].submitted /\ ~pes'[new].dispatched /\ ~pes'[new].prepared
           /\ pes'[new].outputs = <<nextSlot[b]>>
           /\ res.source = SlotSource(nextSlot[b])
           /\ Range(res.pendingSet) =
                Unsubmitted(pes, arrays[lastCall'.h])
                  \cup Unsubmitted(pes, arrays[lastCall'.h2]) \cup {new}
           /\ Cardinality(Range(res.pendingSet)) = Len(res.pendingSet)]_vars

C6_Witness ==
  /\ lastCall.op = "binary" /\ lastCall.err = "none"
  /\ lastCall.h # lastCall.h2
  /\ arrays[lastCall.h].pendingSet = <<1>>
  /\ arrays[lastCall.h2].pendingSet = <<2>>
  /\ arrays[Len(arrays)].pendingSet = <<1, 2, 3>>

\* C7: a read leaves the handle backed by a buffer under a contiguous
\* tracker, and a read of a handle that is already so allocates no buffer,
\* creates no pending executable and leaves its source, tracker and pending
\* set as they were.
C7_RealizeIdempotent ==
  [][lastCall'.op = "dataSync" =>
       LET h == lastCall'.h
       IN /\ ~arrays'[h].source.isExp
          /\ contiguous(arrays'[h].st)
          /\ stShape(arrays'[h].st) = stShape(arrays[h].st)
          /\ (~arrays[h].source.isExp /\ contiguous(arrays[h].st)) =>
               /\ nextSlot' = nextSlot
               /\ \A b \in Backends : DOMAIN buffers'[b] = DOMAIN buffers[b]
               /\ Len(pes') = Len(pes)
               /\ arrays'[h].source = arrays[h].source
               /\ arrays'[h].st = arrays[h].st
               /\ arrays'[h].pendingSet = arrays[h].pendingSet]_vars

\* A second read of a handle realized by a reindexing copy: its executable is
\* dispatched again without being prepared in this call.
C7_Witness ==
  /\ lastCall.op = "dataSync" /\ lastCall.err = "none"
  /\ \E p \in Range(arrays[lastCall.h].pendingSet) :
       /\ pes[p].kernel.nargs = 1
       /\ pes[p].kernel.exp.op = "Global"
       /\ pes[p].outputs = <<arrays[lastCall.h].source.slot>>
       /\ <<"dispatch", p>> \in Range(lastCall.trace)
       /\ <<"prepare", p>> \notin Range(lastCall.trace)

\* C8: a pending executable that was dispatched is observed as submitted (and
\* so leaves the pending sets and is not dispatched again).
C8_DispatchedIsSubmitted ==
  \A p \in 1..Len(pes) : pes[p].dispatched => pes[p].submitted

Owners(b, s) ==
  Cardinality({h \in 1..Len(arrays) :
                 /\ arrays[h].alive /\ ~arrays[h].source.isExp
                 /\ arrays[h].backend = b /\ arrays[h].source.slot = s})
  + Cardinality({p \in 1..Len(pes) :
                   /\ ~pes[p].submitted /\ ~pes[p].dispatched
                   /\ s \in Range(pes[p].inputs) \cup Range(pes[p].outputs)})

\* C9: the reference count of every buffer equals the number of live handles
\* whose source it is plus the number of pending executables (created and
\* not yet dispatched) that reference it.
C9_Ownership ==
  \A b \in Backends : \A s \in DOMAIN buffers[b] :
    buffers[b][s].ref = Owners(b, s)

AllReleased ==
  /\ Len(arrays) > 0
  /\ \A h \in 1..Len(arrays) : ~arrays[h].alive

Drained ==
  /\ calls = EmptyBag
  /\ \A p \in 1..Len(pes) : pes[p].dispatched

\* C10: once every handle is released and the pending work is drained, the
\* backend holds as many buffers as before the first operation (none).
C10_RefcountLaw ==
  (AllReleased /\ Drained) =>
    \A b \in Backends : DOMAIN buffers[b] = {}

\* C11: no operation changes the source, shape tracker, shape or dtype of a
\* handle that exists before the call.
C11_HandlesImmutable ==
  [][\A h \in 1..Len(arrays) :
       /\ h \in 1..Len(arrays')
       /\ arrays'[h].source = arrays[h].source
       /\ arrays'[h].st = arrays[h].st
       /\ stShape(arrays'[h].st) = stShape(arrays[h].st)
       /\ arrays'[h].dtype = arrays[h].dtype]_vars

(***************************************************************************)
(* The backend registry: init, createBackend, getBackend.                  *)
(***************************************************************************)
MaxInits == 2     \* init calls in flight at the same time

defaultBackend == "webgpu"

Null == [type |-> "null", id |-> 0]

\* The n-th backend object of type t
Instance(t, n) == [type |-> t, id |-> n]

\* createBackend once its awaits are over: the CPU backend is always built,
\* the WebGPU backend only when the platform yields an adapter and a device
createBackend(t, n, avail) ==
  IF t = "cpu" THEN Instance("cpu", n)
  ELSE IF avail THEN Instance("webgpu", n) ELSE Null

Register_mut(map, t, backend) == Put(map, t, backend)

\* if (backend) initializedBackends.set(backendType, backend)
Register(map, t, backend) ==
  IF backend # Null THEN Put(map, t, backend) ELSE map

\* if (backends.length === 0) backends = backendTypes
Requested(backends) == IF backends = {} THEN BackendTypes ELSE backends

\* the backends init starts to create: those not in the map at the call
ToCreate(map, backends) ==
  {t \in Requested(backends) : t \notin DOMAIN map}

\* return Array.from(initializedBackends.keys())
InitResult(map, req) == DOMAIN map

getBackend(map, backendType) ==
  LET t == IF backendType = "default" THEN defaultBackend ELSE backendType
  IN IF t \notin DOMAIN map
       THEN [t |-> t, err |-> "Error", backend |-> Null]
       ELSE [t |-> t, err |-> "none", backend |-> map[t]]

\* init(...backends) up to its await: one creation is started for each
\* requested backend that is not registered
RtInit(backends) ==
  /\ Len(inits) < MaxInits
  /\ inits' = Append(inits,
                [req |-> Requested(backends),
                 pending |-> ToCreate(initializedBackends, backends),
                 ok |-> {},
                 pre |-> Requested(backends) \cap DOMAIN initializedBackends])
  /\ rtCall' = [NoRtCall EXCEPT !.op = "init", !.req = Requested(backends)]
  /\ UNCHANGED <<arrayVars, probe, initializedBackends, created, firstGot>>

\* The continuation of await createBackend(backendType) in call i
RtCreateResolve(i, t, avail) ==
  /\ i \in 1..Len(inits) /\ t \in inits[i].pending
  /\ LET backend == createBackend(t, created[t] + 1, avail)
     IN /\ created' = IF backend # Null THEN [created EXCEPT ![t] = @ + 1]
                      ELSE created
        /\ initializedBackends' = Register(initializedBackends, t, backend)
        /\ inits' = [inits EXCEPT ![i].pending = @ \ {t},
                                  ![i].ok = IF backend # Null THEN @ \cup {t} ELSE @]
        /\ rtCall' = [NoRtCall EXCEPT !.op = "create", !.t = t,
                                      !.result = {backend}]
  /\ UNCHANGED <<arrayVars, probe, firstGot>>

\* init after await Promise.all(promises)
RtInitReturn(i) ==
  /\ i \in 1..Len(inits) /\ inits[i].pending = {}
  /\ rtCall' = [NoRtCall EXCEPT !.op = "init.return", !.req = inits[i].req,
                                !.ok = inits[i].ok, !.pre = inits[i].pre,
                                !.result = InitResult(initializedBackends, inits[i].req)]
  /\ inits' = SubSeq(inits, 1, i - 1) \o SubSeq(inits, i + 1, Len(inits))
  /\ UNCHANGED <<arrayVars, probe, initializedBackends, created, firstGot>>

RtGetBackend(backendType) ==
  /\ LET r == getBackend(initializedBackends, backendType)
     IN /\ rtCall' = [NoRtCall EXCEPT !.op = "getBackend", !.t = r.t,
                                      !.err = r.err, !.result = {r.backend}]
        /\ firstGot' = IF r.err = "none" /\ r.t \notin DOMAIN firstGot
                         THEN Put(firstGot, r.t, r.backend) ELSE firstGot
  /\ UNCHANGED <<arrayVars, probe, initializedBackends, created, inits>>

\* The array layer at rest, with no handle to create
ArrayIdle ==
  /\ devices = {"cpu"}
  /\ limit = 0
  /\ buffers = [b \in Backends |-> <<>>]
  /\ nextSlot = [b \in Backends |-> 1]
  /\ hist = [b \in Backends |-> <<>>]
  /\ shadow = [b \in Backends |-> <<>>]
  /\ arrays = <<>>
  /\ pes = <<>>
  /\ calls = EmptyBag
  /\ lastCall = NoCall
  /\ rawCount = 0

InitRuntime == ArrayIdle /\ ExtIdle

NextRuntime ==
  \/ \E backends \in SUBSET BackendTypes : RtInit(backends)
  \/ \E i \in 1..MaxInits, t \in BackendTypes, avail \in BOOLEAN :
       RtCreateResolve(i, t, avail)
  \/ \E i \in 1..MaxInits : RtInitReturn(i)
  \/ \E t \in BackendTypes \cup {"default"} : RtGetBackend(t)

SpecRuntime == InitRuntime /\ [][NextRuntime]_vars

\* C12: each backend type is created at most once, however init calls
\* overlap, and every getBackend(t) returns the instance the first one did.
C12_OneInstance ==
  /\ \A t \in BackendTypes : created[t] <= 1
  /\ (rtCall.op = "getBackend" /\ rtCall.err = "none") =>
       rtCall.result = {firstGot[rtCall.t]}

\* C13 as stated: init returns only requested backends, namely those of them
\* that are registered; no creation without an instance is registered; and
\* getBackend of a backend that is not registered fails.
C13_ReturnsRequested ==
  /\ rtCall.op = "init.return" =>
       rtCall.result = rtCall.req \cap DOMAIN initializedBackends
  /\ \A t \in DOMAIN initializedBackends :
       initializedBackends[t] # Null /\ created[t] >= 1
  /\ rtCall.op = "getBackend" =>
       (rtCall.err = "Error" <=> rtCall.t \notin DOMAIN initializedBackends)

\* C13: init returns the backends registered when it returns, among them
\* every requested backend it created or found registered (and possibly
\* backends it was not asked for); a creation without an instance registers
\* nothing; getBackend fails exactly for a backend that is not registered and
\* returns the registered instance otherwise.
C13_ReturnsRegistered ==
  /\ rtCall.op = "init.return" =>
       /\ rtCall.result = DOMAIN initializedBackends
       /\ (rtCall.ok \cup rtCall.pre) \subseteq rtCall.result
  /\ \A t \in DOMAIN initializedBackends :
       initializedBackends[t] # Null /\ created[t] >= 1
  /\ rtCall.op = "getBackend" =>
       /\ rtCall.err = "Error" <=> rtCall.t \notin DOMAIN initializedBackends
       /\ rtCall.err = "none" => rtCall.result = {initializedBackends[rtCall.t]}

C13_Witness ==
  /\ rtCall.op = "init.return"
  /\ rtCall.req = BackendTypes
  /\ rtCall.ok = {"cpu"}
  /\ rtCall.result = {"cpu"}
  /\ created["webgpu"] = 0

(***************************************************************************)
(* Kernels with a reduction, and their dispatch on the two backends.       *)
(***************************************************************************)
MaxVal == 2       \* largest element of an input buffer

AluGidx == [op |-> "Gidx", val |-> 0, gid |-> 0, st |-> <<>>, src |-> <<>>]

AluRidx == [op |-> "Ridx", val |-> 0, gid |-> 0, st |-> <<>>, src |-> <<>>]

AluAcc == [op |-> "Acc", val |-> 0, gid |-> 0, st |-> <<>>, src |-> <<>>]

\* AluExp.globalView(dtype, gid, st, indices)
AluGlobalView(gid, st, indices) ==
  [op |-> "GlobalView", val |-> 0, gid |-> gid, st |-> st, src |-> indices]

\* accessorGlobal(gid, st, indices): the read of input gid at the offset the
\* tracker gives to the index tuple
accessorGlobalAt(gid, st, indices) ==
  [op |-> "GlobalIndex", val |-> 0, gid |-> gid, st |-> st, src |-> indices]

\* Row-major position of an index tuple in a shape
Ravel(shape, idx) ==
  LET suf == SuffixStrides(shape)
      RECURSIVE Sum(_)
      Sum(k) == IF k > Len(shape) THEN 0 ELSE idx[k] * suf[k] + Sum(k + 1)
  IN Sum(1)

\* AluExp.evaluate(context, globals) with context {gidx, ridx, acc}
RECURSIVE evaluateR(_, _, _)
evaluateR(exp, ctx, globals) ==
  CASE exp.op = "Const" -> exp.val
    [] exp.op = "Gidx" -> ctx.gidx
    [] exp.op = "Ridx" -> ctx.ridx
    [] exp.op = "Acc" -> ctx.acc
    [] exp.op = "Unroll" -> ctx.unroll
    [] exp.op = "Upcast" -> ctx.upcast
    [] exp.op = "Idiv" ->
         evaluateR(exp.src[1], ctx, globals) \div evaluateR(exp.src[2], ctx, globals)
    [] exp.op = "Mod" ->
         evaluateR(exp.src[1], ctx, globals) % evaluateR(exp.src[2], ctx, globals)
    [] exp.op = "Global" -> globals[exp.gid + 1][toAluExp(exp.st, ctx.gidx) + 1]
    [] exp.op = "GlobalIndex" ->
         LET idx == [k \in 1..Len(exp.src) |-> evaluateR(exp.src[k], ctx, globals)]
         IN globals[exp.gid + 1][toAluExp(exp.st, Ravel(stShape(exp.st), idx)) + 1]
    [] exp.op = "StIndex" ->
         LET idx == [k \in 1..Len(exp.src) |-> evaluateR(exp.src[k], ctx, globals)]
         IN toAluExp(exp.st, Ravel(stShape(exp.st), idx))
    [] exp.op = "Add" ->
         evaluateR(exp.src[1], ctx, globals) + evaluateR(exp.src[2], ctx, globals)
    [] exp.op = "Sub" ->
         evaluateR(exp.src[1], ctx, globals) - evaluateR(exp.src[2], ctx, globals)
    [] exp.op = "Mul" ->
         evaluateR(exp.src[1], ctx, globals) * evaluateR(exp.src[2], ctx, globals)

\* The ops of an expression
RECURSIVE OpsOf(_)
OpsOf(exp) ==
  {exp.op} \cup UNION {OpsOf(exp.src[k]) : k \in 1..Len(exp.src)}

\* new Reduction(dtype, op, size, fusion); fusion defaults to acc
Reduction(op, size, fusion) == [op |-> op, size |-> size, fusion |-> fusion]

ReductionIdentity(op) == IF op = "Mul" THEN 1 ELSE 0

\* Reduction.evaluate(acc, item)
ReductionEvaluate(op, acc, item) == IF op = "Mul" THEN acc * item ELSE acc + item

\* new Kernel(nargs, size, exp, reduction)
KernelR(nargs, size, exp, reduction) ==
  [nargs |-> nargs, size |-> size, exp |-> exp, reduction |-> reduction]

\* tuneNullopt(kernel).exp: every GlobalView becomes accessorGlobal on the
\* same tracker and indices
RECURSIVE tuneNulloptExp(_)
tuneNulloptExp(exp) ==
  IF exp.op = "GlobalView" THEN accessorGlobalAt(exp.gid, exp.st, exp.src)
  ELSE [exp EXCEPT !.src = [k \in 1..Len(exp.src) |-> tuneNulloptExp(exp.src[k])]]

NoReduction == [op |-> "none", size |-> 0, fusion |-> AluAcc]

SlotsOk(tbl, inputs, outputs) ==
  /\ \A k \in 1..Len(inputs) : getBuffer(tbl, inputs[k]).err = "none"
  /\ \A k \in 1..Len(outputs) : getBuffer(tbl, outputs[k]).err = "none"

\* for (j = 0; j < reduction.size; j++) acc = reduction.evaluate(acc, item)
RECURSIVE FoldLoop(_, _, _, _, _, _)
FoldLoop(reduction, exp, globals, i, j, acc) ==
  IF j >= reduction.size THEN acc
  ELSE LET item == evaluateR(exp, [gidx |-> i, ridx |-> j, acc |-> 0], globals)
       IN FoldLoop(reduction, exp, globals, i, j + 1,
                   ReductionEvaluate(reduction.op, acc, item))

\* The loops of WasmBackend.dispatch over i, without and with a reduction
RECURSIVE WasmLoop(_, _, _, _, _, _)
WasmLoop(tbl, kernel, exp, inputs, out, i) ==
  IF i >= kernel.size THEN tbl
  ELSE LET globals == [k \in 1..Len(inputs) |-> tbl[inputs[k]].buffer]
           v == IF kernel.reduction = NoReduction
                  THEN evaluateR(exp, [gidx |-> i, ridx |-> 0, acc |-> 0], globals)
                  ELSE LET acc == FoldLoop(kernel.reduction, exp, globals, i, 0,
                                           ReductionIdentity(kernel.reduction.op))
                       IN evaluateR(kernel.reduction.fusion,
                                    [gidx |-> 0, ridx |-> 0, acc |-> acc], globals)
       IN WasmLoop([tbl EXCEPT ![out].buffer[i + 1] = v],
                   kernel, exp, inputs, out, i + 1)

\* WasmBackend.dispatch
wasmDispatch(tbl, kernel, inputs, outputs) ==
  IF ~SlotsOk(tbl, inputs, outputs) THEN [err |-> "SlotError", tbl |-> tbl]
  ELSE [err |-> "none",
        tbl |-> WasmLoop(tbl, kernel, tuneNulloptExp(kernel.exp), inputs,
                         outputs[1], 0)]

\* The loop of CPUBackend.dispatch: exp.evaluate({gidx: i}, globals); the
\* reduction of the kernel is not read
RECURSIVE CpuLoop(_, _, _, _, _)
CpuLoop(tbl, kernel, inputs, out, i) ==
  IF i >= kernel.size THEN tbl
  ELSE LET globals == [k \in 1..Len(inputs) |-> tbl[inputs[k]].buffer]
           v == evaluateR(kernel.exp, [gidx |-> i, ridx |-> 0, acc |-> 0], globals)
       IN CpuLoop([tbl EXCEPT ![out].buffer[i + 1] = v], kernel, inputs, out, i + 1)

\* CPUBackend.dispatch; evaluating an expression that reads ridx, acc or a
\* view that was not lowered throws, the context holding gidx alone
cpuDispatch(tbl, kernel, inputs, outputs) ==
  IF ~SlotsOk(tbl, inputs, outputs) THEN [err |-> "SlotError", tbl |-> tbl]
  ELSE IF kernel.size > 0 /\ OpsOf(kernel.exp) \cap {"Ridx", "Acc", "GlobalView"} # {}
    THEN [err |-> "Error", tbl |-> tbl]
  ELSE [err |-> "none", tbl |-> CpuLoop(tbl, kernel, inputs, outputs[1], 0)]

\* The inputs of the reduction tests: four elements, read as a 2 x 2 matrix
RedInputs == [1..NumElems -> 1..MaxVal]

RedSt == fromShape(<<2, 2>>)

RedExps ==
  {AluGlobalView(0, RedSt, <<AluGidx, AluRidx>>),
   AluGlobalView(0, permute(RedSt, <<1, 0>>), <<AluGidx, AluRidx>>),
   accessorGlobal(0, fromShape(<<NumElems>>)),
   AluBinary("Add", AluGidx, AluConst(2))}

RedFusions == {AluAcc, AluBinary("Add", AluAcc, AluConst(1))}

RedKernels ==
  {KernelR(1, 2, exp, Reduction(op, size, fusion)) :
     exp \in RedExps, op \in {"Add", "Mul"}, size \in {0, 2}, fusion \in RedFusions}
    \cup {KernelR(1, 2, exp, NoReduction) : exp \in RedExps}

\* malloc of the input and of the output, dispatch, readSync of the output
ReduceRun(b, kernel, input) ==
  LET m1 == malloc(<<>>, 1, input)
      m2 == malloc(m1.tbl, m1.next, <<0, 0>>)
      r == IF b = "cpu" THEN cpuDispatch(m2.tbl, kernel, <<m1.slot>>, <<m2.slot>>)
           ELSE wasmDispatch(m2.tbl, kernel, <<m1.slot>>, <<m2.slot>>)
  IN [op |-> "reduce", b |-> b, kernel |-> kernel, input |-> input,
      err |-> r.err, out |-> readSync(r.tbl, m2.slot).buffer]

ReduceDispatch(b, kernel) ==
  /\ probe.op = "input"
  /\ probe' = ReduceRun(b, kernel, probe.input)
  /\ UNCHANGED <<arrayVars, rtVars>>

ReduceNext(input) ==
  /\ probe.op = "reduce"
  /\ probe' = [op |-> "input", input |-> input]
  /\ UNCHANGED <<arrayVars, rtVars>>

InitReduce ==
  /\ ArrayIdle /\ RtIdle
  /\ probe \in {[op |-> "input", input |-> input] : input \in RedInputs}

NextReduce ==
  \/ \E b \in Backends, kernel \in RedKernels : ReduceDispatch(b, kernel)
  \/ \E input \in RedInputs : ReduceNext(input)

SpecReduce == InitReduce /\ [][NextReduce]_vars

\* The value the fold gives to output index i
RECURSIVE RefFold(_, _, _, _)
RefFold(kernel, input, i, j) ==
  IF j = 0 THEN ReductionIdentity(kernel.reduction.op)
  ELSE ReductionEvaluate(kernel.reduction.op, RefFold(kernel, input, i, j - 1),
         evaluateR(tuneNulloptExp(kernel.exp),
                   [gidx |-> i, ridx |-> j - 1, acc |-> 0], <<input>>))

\* C14: on the CPU and the Wasm backend alike, the dispatch of a kernel with
\* a reduction succeeds and writes at every output index i the fusion of the
\* fold of reduction.op over exp(gidx = i, ridx = j), j = 0 .. size - 1,
\* started from the identity.
C14_ReductionFold ==
  (probe.op = "reduce" /\ probe.kernel.reduction # NoReduction) =>
    /\ probe.err = "none"
    /\ \A i \in 0..(probe.kernel.size - 1) :
         probe.out[i + 1] =
           evaluateR(probe.kernel.reduction.fusion,
                     [gidx |-> 0, ridx |-> 0,
                      acc |-> RefFold(probe.kernel, probe.input, i,
                                      probe.kernel.reduction.size)], <<>>)

(***************************************************************************)
(* The tuner: the composition of trackers, the dims of a tuned kernel and   *)
(* the plans of tuneNullopt and tuneWebgpu.                                 *)
(***************************************************************************)
AluUnroll == [op |-> "Unroll", val |-> 0, gid |-> 0, st |-> <<>>, src |-> <<>>]

AluUpcast == [op |-> "Upcast", val |-> 0, gid |-> 0, st |-> <<>>, src |-> <<>>]

\* unravelAlu(shape, exp): one index expression per axis of shape, for the
\* row-major position exp
unravelAlu(shape, exp) ==
  LET suf == SuffixStrides(shape)
  IN [k \in 1..Len(shape) |->
        AluBinary("Mod", AluBinary("Idiv", exp, AluConst(suf[k])), AluConst(shape[k]))]

\* The axis of shape (0 when there is none) inside which a step of s row-major
\* positions moves
AxisOfStride(shape, s) ==
  LET suf == SuffixStrides(shape)
      hit == {a \in 1..Len(shape) :
                shape[a] > 1 /\ suf[a] <= s /\ s < suf[a] * shape[a]}
  IN IF hit = {} THEN 0 ELSE CHOOSE a \in hit : TRUE

\* The stride, in the buffer below view low, of dim k of view top; -1 when
\* the dim does not stay inside one axis of low
ProjectStride(low, top, k) ==
  LET suf == SuffixStrides(low.shape)
      s == top.strides[k]
      a == AxisOfStride(low.shape, s)
  IN IF top.shape[k] = 1 \/ s = 0 THEN 0
     ELSE IF a = 0 \/ s % suf[a] # 0 \/ (s \div suf[a]) * top.shape[k] > low.shape[a]
       THEN -1
     ELSE (s \div suf[a]) * low.strides[a]

\* The one view that reads, through view top, what view low reads
mergeViews(low, top) ==
  IF ViewContiguous(low) THEN [ok |-> TRUE, view |-> top]
  ELSE IF ViewContiguous(top) THEN reshapeView(low, top.shape)
  ELSE LET strides == [k \in 1..Len(top.shape) |-> ProjectStride(low, top, k)]
       IN IF -1 \in Range(strides) THEN [ok |-> FALSE, view |-> top]
          ELSE [ok |-> TRUE, view |-> [shape |-> top.shape, strides |-> strides]]

\* ShapeTracker.compose(other): the views of other on top of the views of
\* st, adjacent views merged where one view can express both
RECURSIVE compose(_, _)
compose(st, other) ==
  IF other = <<>> THEN st
  ELSE LET m == mergeViews(st[Len(st)], Head(other))
       IN compose(IF m.ok THEN [st EXCEPT ![Len(st)] = m.view]
                  ELSE Append(st, Head(other)),
                  Tail(other))

lastStrides(st) == st[Len(st)].strides

\* class TuneDims: constructor(shape); axes are counted from 0
TuneDims(shape) ==
  [st |-> fromShape(shape),
   outputSt |-> fromShape(SubSeq(shape, 1, Len(shape) - 1)),
   groups |-> Len(shape) - 1, reduce |-> Len(shape) - 1,
   unroll |-> Len(shape), upcast |-> Len(shape)]

\* range(a, b): a, a + 1, ..., b - 1
range(a, b) == [k \in 1..(IF b > a THEN b - a ELSE 0) |-> a + k - 1]

\* The reshape and the permute of applyUpcast on one tracker: the axis is
\* split into length / amount and amount, and amount moves to the end
UpcastSt(st, axis, amount) ==
  LET shape == stShape(st)
      length == shape[axis + 1]
      split == SubSeq(shape, 1, axis) \o <<length \div amount, amount>>
                 \o SubSeq(shape, axis + 2, Len(shape))
  IN permute(stReshape(st, split),
             range(0, axis + 1) \o range(axis + 2, Len(shape) + 1) \o <<axis + 1>>)

\* TuneDims.applyUpcast(axis, amount)
applyUpcast(dim, axis, amount) ==
  IF axis >= dim.groups \/ stShape(dim.st)[axis + 1] % amount # 0
    THEN [err |-> "Error", dim |-> dim]
  ELSE [err |-> "none",
        dim |-> [dim EXCEPT !.st = UpcastSt(dim.st, axis, amount),
                            !.outputSt = UpcastSt(dim.outputSt, axis, amount)]]

UpcastThreshold == 1024

UpcastAmounts == {3, 4}

\* lexCompare(a, b) <= 0 on sequences of one length
RECURSIVE lexLeq(_, _)
lexLeq(a, b) ==
  IF a = <<>> THEN TRUE
  ELSE IF Head(a) # Head(b) THEN Head(a) < Head(b)
  ELSE lexLeq(Tail(a), Tail(b))

RECURSIVE SumSeq(_)
SumSeq(s) == IF s = <<>> THEN 0 ELSE Head(s) + SumSeq(Tail(s))

\* The choices of one round of the upcast loop:
\* <<nonzeroStrides, totalStrides, axis, amount>>
UpcastChoices(sts, dim, upcastedAxis) ==
  LET composedSts == [k \in 1..Len(sts) |-> compose(sts[k], dim.st)]
      strideAt(k, axis) == lastStrides(composedSts[k])[axis + 1]
      upcastStrides(k) ==
        SubSeq(lastStrides(composedSts[k]), dim.unroll + 1,
               Len(lastStrides(composedSts[k])))
  IN {<<SumSeq([k \in 1..Len(sts) |-> IF strideAt(k, axis) > 0 THEN 1 ELSE 0]),
        SumSeq([k \in 1..Len(sts) |-> strideAt(k, axis)]), axis, amount>> :
        <<axis, amount>> \in
          {c \in (0..(dim.groups - 1)) \X UpcastAmounts :
             /\ c[1] \notin upcastedAxis
             /\ stShape(dim.st)[c[1] + 1] % c[2] = 0
             /\ \E k \in 1..Len(sts) :
                  /\ strideAt(k, c[1]) = 0
                  /\ \A j \in 1..Len(upcastStrides(k)) : upcastStrides(k)[j] > 0}}

\* while (prod(dim.st.shape.slice(0, dim.groups)) >= 1024): a round without
\* a choice changes nothing, and the loop does not end
RECURSIVE UpcastLoop(_, _, _)
UpcastLoop(sts, dim, upcastedAxis) ==
  IF Prod(SubSeq(stShape(dim.st), 1, dim.groups)) < UpcastThreshold
    THEN [err |-> "none", dim |-> dim]
  ELSE CHOOSE res \in UNION {
         IF choices = {} THEN {[err |-> "hang", dim |-> dim]}
         ELSE UNION {
           {IF r.err # "none" THEN r
            ELSE UpcastLoop(sts, r.dim, upcastedAxis \cup {best[3]}) :
              r \in {applyUpcast(dim, best[3], best[4])}} :
           best \in {CHOOSE c \in choices : \A d \in choices : lexLeq(c, d)}} :
         choices \in {UpcastChoices(sts, dim, upcastedAxis)}} : TRUE

\* exp.collect(GlobalView)
RECURSIVE collectViews(_)
collectViews(exp) ==
  IF exp.op = "GlobalView" THEN <<exp>>
  ELSE IF exp.src = <<>> THEN <<>>
  ELSE IF Len(exp.src) = 1 THEN collectViews(exp.src[1])
  ELSE collectViews(exp.src[1]) \o collectViews(exp.src[2])

\* addIndices(s, exp)
addIndices(s, exp) ==
  IF s = <<>> THEN <<>> ELSE IF Len(s) = 1 THEN <<exp>> ELSE unravelAlu(s, exp)

\* The index list of the tuned expression
TuneIndices(dim) ==
  LET shape == stShape(dim.st)
      slice(a, b) == SubSeq(shape, a + 1, b)
  IN (IF 0 < dim.groups THEN addIndices(slice(0, dim.groups), AluGidx) ELSE <<>>)
       \o (IF dim.reduce <= dim.unroll
             THEN addIndices(slice(dim.reduce, dim.unroll), AluRidx) ELSE <<>>)
       \o (IF dim.unroll < dim.upcast
             THEN addIndices(slice(dim.unroll, dim.upcast), AluUnroll) ELSE <<>>)
       \o (IF dim.upcast < Len(shape) - 1
             THEN addIndices(slice(dim.upcast, Len(shape)), AluUpcast) ELSE <<>>)

\* exp.rewrite: GlobalView -> accessorGlobal(gid, st.compose(dim.st), indices);
\* pad is what the accessor reads for an axis that has no index
RECURSIVE TuneRewrite(_, _, _, _)
TuneRewrite(exp, dim, indices, pad) ==
  IF exp.op = "GlobalView"
    THEN accessorGlobalAt(exp.gid, compose(exp.st, dim.st), indices \o pad)
  ELSE [exp EXCEPT !.src =
          [k \in 1..Len(exp.src) |-> TuneRewrite(exp.src[k], dim, indices, pad)]]

\* dim.outputSt.toAluExp([...unravelAlu(outputGidx, gidx),
\*                        ...unravelAlu(outputUpcast, upcast)])
TuneOutputIdx(dim) ==
  LET shape == stShape(dim.outputSt)
  IN [op |-> "StIndex", val |-> 0, gid |-> 0, st |-> dim.outputSt,
      src |-> unravelAlu(SubSeq(shape, 1, dim.groups), AluGidx)
                \o unravelAlu(SubSeq(shape, dim.groups + 1, Len(shape)), AluUpcast)]

tuneSize_mut(dim) ==
  LET shape == stShape(dim.st)
  IN [groups |-> Prod(SubSeq(shape, dim.groups + 1, dim.reduce)),
      reduce |-> Prod(SubSeq(shape, dim.reduce + 1, Len(shape))),
      unroll |-> Prod(SubSeq(shape, dim.unroll + 1, dim.upcast)),
      upcast |-> Prod(SubSeq(shape, dim.upcast + 1, Len(shape)))]

\* const size = {groups, reduce, unroll, upcast}
tuneSize(dim) ==
  LET shape == stShape(dim.st)
  IN [groups |-> Prod(SubSeq(shape, dim.groups + 1, dim.reduce)),
      reduce |-> Prod(SubSeq(shape, dim.reduce + 1, dim.unroll)),
      unroll |-> Prod(SubSeq(shape, dim.unroll + 1, dim.upcast)),
      upcast |-> Prod(SubSeq(shape, dim.upcast + 1, Len(shape)))]

NoPlan(err) ==
  [err |-> err, tuned |-> FALSE, exp |-> AluConst(0), outputIdxExp |-> AluGidx,
   threadCount |-> 0, size |-> [reduce |-> 0]]

tuneNullopt(kernel) ==
  [err |-> "none", tuned |-> FALSE, exp |-> tuneNulloptExp(kernel.exp),
   outputIdxExp |-> AluGidx, threadCount |-> kernel.size,
   size |-> [reduce |-> IF kernel.reduction # NoReduction
                          THEN kernel.reduction.size ELSE 0]]

\* Step 4 of tuneWebgpu; an accessor that is given fewer indices than its
\* tracker has axes either throws or reads the missing axes at 0 (lax)
TunePlan(kernel, dim, lax) ==
  LET indices == TuneIndices(dim)
      missing == Len(stShape(dim.st)) - Len(indices)
      size == tuneSize(dim)
  IN IF missing > 0 /\ ~lax THEN NoPlan("Error")
     ELSE IF Prod(SubSeq(stShape(dim.st), dim.groups + 1, dim.upcast))
               # kernel.reduction.size
       THEN NoPlan("Error")
     ELSE [err |-> "none", tuned |-> TRUE,
           exp |-> TuneRewrite(kernel.exp, dim, indices,
                               [k \in 1..missing |-> AluConst(0)]),
           outputIdxExp |-> TuneOutputIdx(dim),
           threadCount |-> (kernel.size \div size.upcast) * size.groups,
           size |-> size]

tuneWebgpu(kernel, lax) ==
  LET globalViews == collectViews(kernel.exp)
      shape == stShape(globalViews[1].st)
      expectedSrc == unravelAlu(SubSeq(shape, 1, Len(shape) - 1), AluGidx) \o <<AluRidx>>
      sts == [k \in 1..Len(globalViews) |-> globalViews[k].st]
  IN IF kernel.reduction = NoReduction THEN tuneNullopt(kernel)
     ELSE IF globalViews = <<>> THEN tuneNullopt(kernel)
     ELSE IF \E k \in 1..Len(globalViews) :
               globalViews[k].src = <<>> \/ globalViews[k].src # expectedSrc
       THEN tuneNullopt(kernel)
     ELSE IF shape[Len(shape)] # kernel.reduction.size THEN NoPlan("Error")
     ELSE IF \E k \in 1..Len(sts) : stShape(sts[k]) # shape THEN NoPlan("Error")
     ELSE CHOOSE plan \in {IF r.err # "none" THEN NoPlan(r.err)
                            ELSE TunePlan(kernel, r.dim, lax) :
                              r \in {UpcastLoop(sts, TuneDims(shape), {})}} : TRUE

\* A dim size of a plan; tuneNullopt leaves groups, unroll and upcast out
SizeOf(plan, f) == IF f \in DOMAIN plan.size THEN plan.size[f] ELSE 1

PlanCtx(gidx, ridx, unroll, upcast, acc) ==
  [gidx |-> gidx, ridx |-> ridx, unroll |-> unroll, upcast |-> upcast, acc |-> acc]

\* The reduce loop of one thread at one upcast index: ridx over the reduce
\* size, and the unroll index inside it
RECURSIVE PlanFold(_, _, _, _, _, _, _)
PlanFold(kernel, plan, globals, g, u, j, acc) ==
  IF j >= SizeOf(plan, "reduce") * SizeOf(plan, "unroll") THEN acc
  ELSE LET item == evaluateR(plan.exp,
                     PlanCtx(g, j \div SizeOf(plan, "unroll"),
                             j % SizeOf(plan, "unroll"), u, 0), globals)
       IN PlanFold(kernel, plan, globals, g, u, j + 1,
                   ReductionEvaluate(kernel.reduction.op, acc, item))

\* What thread g writes at upcast index u
PlanValue(kernel, plan, globals, g, u) ==
  IF kernel.reduction = NoReduction
    THEN evaluateR(plan.exp, PlanCtx(g, 0, 0, u, 0), globals)
  ELSE CHOOSE v \in {evaluateR(kernel.reduction.fusion,
                                PlanCtx(g, 0, 0, u, acc), globals) :
                        acc \in {PlanFold(kernel, plan, globals, g, u, 0,
                                         ReductionIdentity(kernel.reduction.op))}} : TRUE

\* The writes of the grid: every thread writes, for every upcast index, its
\* value at outputIdxExp; <<index, value>> pairs
RunPlan(kernel, plan, globals) ==
  {<<evaluateR(plan.outputIdxExp, PlanCtx(g, 0, 0, u, 0), globals),
     PlanValue(kernel, plan, globals, g, u)>> :
     g \in 0..(plan.threadCount - 1), u \in 0..(SizeOf(plan, "upcast") - 1)}

(***************************************************************************)
(* The kernels handed to the tuner.                                        *)
(***************************************************************************)
MaxPattern == 3   \* input buffers the tuned kernels are run on

TuneN == 64

TuneInputs == {[k \in 1..TuneN |-> ((k * c) % (MaxPattern + 2)) + 1] : c \in 1..MaxPattern}

\* A vector of n elements laid along one axis of shape and read at every
\* index of the other axes
AlongAxis(n, axis, shape) ==
  expand(stReshape(fromShape(<<n>>),
                   [k \in 1..Len(shape) |-> IF k = axis THEN n ELSE 1]), shape)

ViewOver(gid, st) ==
  AluGlobalView(gid, st,
    unravelAlu(SubSeq(stShape(st), 1, Len(stShape(st)) - 1), AluGidx) \o <<AluRidx>>)

SumKernel(exp, size, r) == KernelR(1, size, exp, Reduction("Add", r, AluAcc))

\* out[a, b] = sum over r of x[b] * x[a]: both output axes are upcast
TuneOuter ==
  LET shape == <<TuneN, TuneN, 2>>
  IN SumKernel(AluBinary("Mul", ViewOver(0, AlongAxis(TuneN, 2, shape)),
                                ViewOver(0, AlongAxis(TuneN, 1, shape))),
               TuneN * TuneN, 2)

\* out[a] = x[0] + x[1] for every a: the one output axis is upcast
TuneBroadcast ==
  SumKernel(ViewOver(0, AlongAxis(2, 2, <<UpcastThreshold, 2>>)), UpcastThreshold, 2)

\* out[a, b] = sum over r of x[r] + x[b]: axis b is upcast, axis a is not
TuneRows ==
  LET shape == <<UpcastThreshold \div 4 + 1, 4, 2>>
  IN SumKernel(AluBinary("Add", ViewOver(0, AlongAxis(2, 3, shape)),
                                ViewOver(0, AlongAxis(4, 2, shape))),
               UpcastThreshold + 4, 2)

\* As TuneBroadcast, with an output axis that neither 3 nor 4 divides
TuneOdd ==
  SumKernel(ViewOver(0, AlongAxis(2, 2, <<UpcastThreshold + 1, 2>>)),
            UpcastThreshold + 1, 2)

\* The sums of the rows and of the columns of a 2 x 2 matrix
TuneSmall ==
  {SumKernel(ViewOver(0, st), 2, 2) : st \in {RedSt, permute(RedSt, <<1, 0>>)}}

TuneKernels ==
  {TuneOuter, TuneBroadcast, TuneRows, TuneOdd} \cup TuneSmall
    \cup {SumKernel(ViewOver(0, RedSt), 2, 1),
          SumKernel(AluGlobalView(0, RedSt, <<AluRidx, AluGidx>>), 2, 2),
          SumKernel(AluBinary("Add", AluGidx, AluRidx), 2, 2),
          KernelR(1, NumElems, accessorGlobal(0, fromShape(<<NumElems>>)), NoReduction)}

Tune(tuner, kernel, lax) ==
  /\ probe.op = "input"
  /\ probe' = [op |-> "plan", tuner |-> tuner, kernel |-> kernel,
               input |-> probe.input,
               plan |-> IF tuner = "null" THEN tuneNullopt(kernel)
                        ELSE tuneWebgpu(kernel, lax),
               out |-> {}]
  /\ UNCHANGED <<arrayVars, rtVars>>

TuneRun ==
  /\ probe.op = "plan"
  /\ probe.plan.err = "none"
  /\ probe' = [probe EXCEPT !.op = "ran",
                 !.out = RunPlan(probe.kernel, probe.plan, <<probe.input>>)]
  /\ UNCHANGED <<arrayVars, rtVars>>

TuneNext(input) ==
  /\ probe.op \in {"plan", "ran"}
  /\ probe' = [op |-> "input", input |-> input]
  /\ UNCHANGED <<arrayVars, rtVars>>

InitTune ==
  /\ ArrayIdle /\ RtIdle
  /\ probe \in {[op |-> "input", input |-> input] : input \in TuneInputs}

NextTune ==
  \/ \E kernel \in TuneKernels : Tune("null", kernel, FALSE)
  \/ \E kernel \in TuneKernels, lax \in BOOLEAN : Tune("webgpu", kernel, lax)
  \/ TuneRun
  \/ \E input \in TuneInputs : TuneNext(input)

SpecTune == InitTune /\ [][NextTune]_vars

\* A plan that tuneWebgpu returned from its step 4
TunedPlan ==
  /\ probe.op \in {"plan", "ran"}
  /\ probe.tuner = "webgpu"
  /\ probe.plan.err = "none"
  /\ probe.plan.tuned

\* The last axis of every view of the kernel is the reduction axis
WellFormed(kernel) ==
  /\ kernel.reduction # NoReduction
  /\ \A k \in 1..Len(collectViews(kernel.exp)) :
       LET shape == stShape(collectViews(kernel.exp)[k].st)
       IN /\ shape[Len(shape)] = kernel.reduction.size
          /\ Prod(SubSeq(shape, 1, Len(shape) - 1)) = kernel.size

\* C15: for every reduction kernel tuneWebgpu returns a plan, and the writes
\* of that plan, over all its threads and upcast indices, are one write at
\* every output index 0 .. kernel.size - 1 of the element the tuneNullopt
\* plan writes there.
C15_TunerKeepsSemantics ==
  (probe.op \in {"plan", "ran"} /\ probe.tuner = "webgpu" /\ WellFormed(probe.kernel)) =>
    /\ probe.plan.err = "none"
    /\ probe.op = "ran" =>
         probe.out = RunPlan(probe.kernel, tuneNullopt(probe.kernel), <<probe.input>>)

\* C16 as stated: the dim sizes of a tuned plan satisfy
\* reduce * unroll * upcast = reduction size.
C16_PostCondition ==
  TunedPlan =>
    probe.plan.size.reduce * probe.plan.size.unroll * probe.plan.size.upcast
      = probe.kernel.reduction.size

\* C16: the dim sizes of a tuned plan satisfy groups * reduce * unroll =
\* reduction size; upcast counts the output elements of one thread, so that
\* threadCount * upcast = kernel.size * groups.
C16_ReductionDims ==
  TunedPlan =>
    /\ probe.plan.size.groups * probe.plan.size.reduce * probe.plan.size.unroll
         = probe.kernel.reduction.size
    /\ probe.plan.threadCount * probe.plan.size.upcast
         = probe.kernel.size * probe.plan.size.groups

C16_Witness ==
  /\ TunedPlan
  /\ probe.plan.size.upcast > 1
  /\ probe.plan.size.reduce = probe.kernel.reduction.size

(***************************************************************************)
(* threefry2x32: the WebAssembly builtin and the GLSL source.  A 32-bit     *)
(* word is a pair <<high half, low half>> of 16-bit numbers.                *)
(***************************************************************************)
RECURSIVE Pow2(_)
Pow2(n) == IF n = 0 THEN 1 ELSE 2 * Pow2(n - 1)

Half == Pow2(16)

\* A bitwise operation on two numbers of n bits; bit(x, y) is on bits
RECURSIVE Bitwise(_, _, _, _)
Bitwise(op, a, b, n) ==
  IF n = 0 THEN 0
  ELSE LET x == a % 2
           y == b % 2
           bit == IF op = "xor" THEN (x + y) % 2 ELSE IF x + y > 0 THEN 1 ELSE 0
       IN bit + (2 * Bitwise(op, a \div 2, b \div 2, n - 1))

\* i32.add and uint +: the sum modulo 2^32
I32Add(a, b) ==
  LET lo == a[2] + b[2]
  IN <<(a[1] + b[1] + (lo \div Half)) % Half, lo % Half>>

\* i32.xor and uint ^
I32Xor(a, b) == <<Bitwise("xor", a[1], b[1], 16), Bitwise("xor", a[2], b[2], 16)>>

I32Rotl_mut(x, r) ==
  IF r >= 16 THEN <<x[2], x[1]>>
  ELSE <<((x[1] * Pow2(r)) % Half) + (x[2] \div Pow2(16 - r)),
         ((x[2] * Pow2(r)) % Half) + (x[1] \div Pow2(16 - r))>>

\* i32.rotl by r, 0 <= r < 32
RECURSIVE I32Rotl(_, _)
I32Rotl(x, r) ==
  IF r >= 16 THEN I32Rotl(<<x[2], x[1]>>, r - 16)
  ELSE <<((x[1] * Pow2(r)) % Half) + (x[2] \div Pow2(16 - r)),
         ((x[2] * Pow2(r)) % Half) + (x[1] \div Pow2(16 - r))>>

\* uint << r: the bits shifted out at the top are lost
UintShl(x, r) ==
  IF r >= 16 THEN <<(x[2] * Pow2(r - 16)) % Half, 0>>
  ELSE <<((x[1] * Pow2(r)) % Half) + (x[2] \div Pow2(16 - r)), (x[2] * Pow2(r)) % Half>>

\* uint >> r: zeros come in at the top
UintShr(x, r) ==
  IF r >= 16 THEN <<0, x[1] \div Pow2(r - 16)>>
  ELSE <<x[1] \div Pow2(r), (x[2] \div Pow2(r)) + ((x[1] % Pow2(r)) * Pow2(16 - r))>>

\* uint |
UintOr(a, b) == <<Bitwise("or", a[1], b[1], 16), Bitwise("or", a[2], b[2], 16)>>

\* The JavaScript number of an i32 result: two's complement
ToInt32(x) ==
  IF x[1] >= Half \div 2 THEN ((x[1] - Half) * Half) + x[2] ELSE (x[1] * Half) + x[2]

\* n >>> 0, as a word
ToUint32(n) ==
  IF n < 0 THEN LET m == (n + 2147483647) + 1
                IN <<(m \div Half) + (Half \div 2), m % Half>>
  ELSE <<n \div Half, n % Half>>

\* cg.i32.const(n)
I32Const(n) == <<n \div Half, n % Half>>

\* 0x1BD11BDA
ThreefryParity == <<7121, 7130>>

\* wasm_threefry2x32: the pair returned to JavaScript.  The locals x0, x1
\* go from one group of instructions to the next as the one element of a set.
wasm_threefry2x32(key0, key1, ctr0, ctr1) ==
  LET mix(X, rot) ==
        {<<I32Add(x[1], x[2]), I32Xor(I32Rotl(x[2], rot), I32Add(x[1], x[2]))>> : x \in X}
      keySchedule(X, k0, k1, round) ==
        {<<I32Add(x[1], k0), I32Add(I32Add(x[2], k1), I32Const(round))>> : x \in X}
      round1(X) == mix(mix(mix(mix(X, 13), 15), 26), 6)
      round2(X) == mix(mix(mix(mix(X, 17), 29), 16), 24)
      ks0 == key0
      ks1 == key1
      ks2 == I32Xor(I32Xor(key0, key1), ThreefryParity)
      s0 == {<<I32Add(ctr0, ks0), I32Add(ctr1, ks1)>>}
      s1 == keySchedule(round1(s0), ks1, ks2, 1)
      s2 == keySchedule(round2(s1), ks2, ks0, 2)
      s3 == keySchedule(round1(s2), ks0, ks1, 3)
      s4 == keySchedule(round2(s3), ks1, ks2, 4)
      s5 == keySchedule(round1(s4), ks2, ks0, 5)
  IN CHOOSE r \in {<<ToInt32(x[1]), ToInt32(x[2])>> : x \in s5} : TRUE

\* threefrySrc: uvec2 threefry2x32(uvec2 key, uvec2 ctr); x0 and x1 go from
\* one line to the next as the one element of a set
threefrySrc(key, ctr) ==
  LET line(X, l, r) ==
        {<<I32Add(x[1], x[2]),
           I32Xor(UintOr(UintShl(x[2], l), UintShr(x[2], r)), I32Add(x[1], x[2]))>> :
           x \in X}
      inject(X, k0, k1, n) ==
        {<<I32Add(x[1], k0), I32Add(x[2], I32Add(k1, I32Const(n)))>> : x \in X}
      linesA(X) == line(line(line(line(X, 13, 19), 15, 17), 26, 6), 6, 26)
      linesB(X) == line(line(line(line(X, 17, 15), 29, 3), 16, 16), 24, 8)
      ks0 == key[1]
      ks1 == key[2]
      ks2 == I32Xor(I32Xor(ks0, ks1), ThreefryParity)
      s0 == {<<I32Add(ctr[1], ks0), I32Add(ctr[2], ks1)>>}
      s1 == inject(linesA(s0), ks1, ks2, 1)
      s2 == inject(linesB(s1), ks2, ks0, 2)
      s3 == inject(linesA(s2), ks0, ks1, 3)
      s4 == inject(linesB(s3), ks1, ks2, 4)
      s5 == inject(linesA(s4), ks2, ks0, 5)
  IN CHOOSE r \in s5 : TRUE

MaxWords == 4     \* 32-bit words the keys and the counters are drawn from

\* 0, 1, 0xdeadbeef, 0x87654321, 0xffffffff, 0xcafebabe, 0x12345678
ThreefryWords ==
  {w \in {<<0, 0, 1>>, <<0, 1, 2>>, <<57005, 48879, 3>>, <<34661, 17185, 4>>,
          <<Half - 1, Half - 1, 5>>, <<51966, 47806, 6>>, <<4660, 22136, 7>>} :
     w[3] <= MaxWords}

Threefry(impl) ==
  /\ probe.op = "words"
  /\ probe' = [op |-> "threefry", impl |-> impl, in |-> probe.in,
               out |-> IF impl = "wasm"
                         THEN wasm_threefry2x32(probe.in[1], probe.in[2],
                                                probe.in[3], probe.in[4])
                       ELSE threefrySrc(<<probe.in[1], probe.in[2]>>,
                                        <<probe.in[3], probe.in[4]>>)]
  /\ UNCHANGED <<arrayVars, rtVars>>

ThreefryNext(w) ==
  /\ probe.op = "threefry"
  /\ probe' = [op |-> "words", in |-> [k \in 1..4 |-> <<w[k][1], w[k][2]>>]]
  /\ UNCHANGED <<arrayVars, rtVars>>

InitThreefry ==
  /\ ArrayIdle /\ RtIdle
  /\ probe \in {[op |-> "words", in |-> [k \in 1..4 |-> <<w[k][1], w[k][2]>>]] :
                  w \in [1..4 -> ThreefryWords]}

NextThreefry ==
  \/ \E impl \in {"wasm", "glsl"} : Threefry(impl)
  \/ \E w \in [1..4 -> ThreefryWords] : ThreefryNext(w)

SpecThreefry == InitThreefry /\ [][NextThreefry]_vars

\* C17: threefry2x32 of key (0, 0) and counter (0, 0) is
\* (1797259609, 2579123966) = (0x6B200159, 0x99BA4EFE) as unsigned 32-bit
\* words, on the WebAssembly builtin and on the GLSL source, and on every
\* input the two give the same pair of words.
C17_Threefry ==
  probe.op = "threefry" =>
    LET words == IF probe.impl = "wasm"
                   THEN <<ToUint32(probe.out[1]), ToUint32(probe.out[2])>>
                 ELSE probe.out
        other == IF probe.impl = "wasm"
                   THEN threefrySrc(<<probe.in[1], probe.in[2]>>,
                                    <<probe.in[3], probe.in[4]>>)
                 ELSE LET r == wasm_threefry2x32(probe.in[1], probe.in[2],
                                                 probe.in[3], probe.in[4])
                      IN <<ToUint32(r[1]), ToUint32(r[2])>>
    IN /\ words = other
       /\ probe.in = [k \in 1..4 |-> <<0, 0>>] =>
            words = <<<<27424, 345>>, <<39354, 20222>>>>

C17_Witness ==
  /\ probe.op = "threefry"
  /\ probe.impl = "wasm"
  /\ probe.in = [k \in 1..4 |-> <<0, 0>>]
  /\ probe.out = <<1797259609, -1715843330>>

(***************************************************************************)
(* Round trips of the movement operations.                                  *)
(***************************************************************************)
MaxRound == 3     \* Array handles made before a round trip

RoundCreate == {<<2, 1, 2>>}

RoundShapes == {<<4>>, <<-1>>, <<2, -1>>, <<-1, 2>>, <<1, 4>>, <<2, 1, -1>>}

\* The permutations of the axes 0 .. n - 1
Perms(n) == {p \in [1..n -> 0..(n - 1)] : Range(p) = 0..(n - 1)}

Inverse(p) == [k \in 1..Len(p) |-> (CHOOSE j \in 1..Len(p) : p[j] = k - 1) - 1]

\* shape has as many elements as size, one dimension at most being -1
SameSize(size, shape) ==
  LET given == SelectSeq(shape, LAMBDA d : d # -1)
  IN /\ Len(shape) - Len(given) <= 1
     /\ \A k \in 1..Len(given) : given[k] > 0
     /\ IF Len(given) = Len(shape) THEN Prod(given) = size
        ELSE size % Prod(given) = 0

\* await Array.data(), nothing else running between its steps
data(W, A, h) ==
  LET Resolved(s) ==
        [s.W EXCEPT !.pes = [p \in 1..Len(s.W.pes) |->
           IF p \in s.call.awaiting
             THEN [s.W.pes[p] EXCEPT !.prepared = TRUE, !.promise = "done"]
             ELSE s.W.pes[p]]]
      Finish(s, w) == [W |-> dataFinish(w, s.A, s.call), A |-> s.A]
  IN CHOOSE r \in UNION {{Finish(s, w) : w \in {Resolved(s)}} :
                           s \in {dataStart(W, A, h)}} : TRUE

ReadModes == {"data", "dataSync"}

Read(how, W, A, h) == IF how = "data" THEN data(W, A, h) ELSE dataSync(W, A, h)

\* x.reshape(s).reshape(x.shape).data() or
\* x.transpose(p).transpose(inverse(p)).data(), then x.data()
RoundTrip(kind, how, h, arg) ==
  /\ h \in 1..Len(arrays) /\ arrays[h].alive
  /\ probe = NoProbe
  /\ IF kind = "reshape" THEN SameSize(stSize(arrays[h].st), arg)
     ELSE arg \in Perms(Len(stShape(arrays[h].st)))
  /\ \E r1 \in {IF kind = "reshape" THEN reshape(arrays, pes, h, arg)
                 ELSE transpose(arrays, pes, h, arg)} :
     \E r2 \in {IF r1.err # "none" THEN r1
                 ELSE IF kind = "reshape"
                   THEN reshape(r1.A, pes, Len(r1.A), stShape(arrays[h].st))
                 ELSE transpose(r1.A, pes, Len(r1.A), Inverse(arg))} :
     \E dz \in {IF r2.err # "none"
                   THEN [W |-> [World EXCEPT !.err = r2.err], A |-> r2.A]
                 ELSE Read(how, World, r2.A, Len(r2.A))} :
     \E dx \in {IF dz.W.err # "none" THEN dz ELSE Read(how, dz.W, dz.A, h)} :
        /\ Commit(dx.W)
        /\ arrays' = dx.A
        /\ lastCall' = Call("round", arrays[h].backend, h, Len(r2.A), {}, dx.W)
        /\ probe' = [op |-> "round", kind |-> kind, how |-> how, h |-> h, arg |-> arg,
                     shape |-> stShape(arrays[h].st), err |-> dx.W.err,
                     got |-> dz.W.result, want |-> dx.W.result]
  /\ UNCHANGED <<rtVars, devices, limit, calls, rawCount>>

InitRound ==
  /\ devices = {"cpu"}
  /\ limit = MaxRound
  /\ buffers = [b \in Backends |-> <<>>]
  /\ nextSlot = [b \in Backends |-> 1]
  /\ hist = [b \in Backends |-> <<>>]
  /\ shadow = [b \in Backends |-> <<>>]
  /\ arrays = <<>>
  /\ pes = <<>>
  /\ calls = EmptyBag
  /\ lastCall = NoCall
  /\ rawCount = 0
  /\ ExtIdle

\* Handles are built first, then round trips are taken on them
BuildRound ==
  \/ \E sh \in CreateShapes, b \in devices : ArrayConst(1, sh, b)
  \/ \E d \in DTypes, b \in devices : ArrayFromData(d, b)
  \/ \E h \in 1..limit, sh \in RoundCreate : ArrayReshape(h, sh)
  \/ \E h \in 1..limit, ax \in TransposeAxes : ArrayTranspose(h, ax)

NextRound ==
  \/ probe = NoProbe /\ BuildRound
  \/ \E h \in 1..limit, how \in ReadModes, sh \in RoundShapes :
       RoundTrip("reshape", how, h, sh)
  \/ \E h \in 1..limit, how \in ReadModes, n \in 1..3 : \E p \in Perms(n) :
       RoundTrip("transpose", how, h, p)

SpecRound == InitRound /\ [][NextRound]_vars

\* C18: for every handle x and every shape s with as many elements as x, one
\* dimension of s at most being -1, x.reshape(s).reshape(x.shape) reads
\* without an error the elements x reads, in the same order.
C18_ReshapeRoundTrip ==
  (probe.op = "round" /\ probe.kind = "reshape") =>
    /\ probe.err = "none"
    /\ Len(probe.want) = Prod(probe.shape)
    /\ probe.got = probe.want

C18_Witness ==
  /\ probe.op = "round" /\ probe.kind = "reshape" /\ probe.how = "data"
  /\ probe.arg = <<-1, 2>>
  /\ probe.shape = <<2, 1, 2>>
  /\ probe.got = <<1, 3, 2, 4>>

\* C19: for every handle x and every permutation p of its axes,
\* x.transpose(p).transpose(inverse(p)) reads without an error the elements
\* x reads, in the same order.
C19_TransposeRoundTrip ==
  (probe.op = "round" /\ probe.kind = "transpose") =>
    /\ probe.err = "none"
    /\ Len(probe.want) = Prod(probe.shape)
    /\ probe.got = probe.want

C19_Witness ==
  /\ probe.op = "round" /\ probe.kind = "transpose" /\ probe.how = "data"
  /\ probe.arg = <<1, 2, 0>>
  /\ probe.got = <<1, 3, 2, 4>>

(***************************************************************************)
(* Binary operations on operands of different shapes or dtypes.            *)
(***************************************************************************)
BinaryDTypes == {"float32", "int32"}

NextBinary ==
  \/ \E sh \in CreateShapes, b \in devices : ArrayConst(1, sh, b)
  \/ \E d \in BinaryDTypes, b \in devices : ArrayFromData(d, b)
  \/ \E h \in 1..limit, sh \in CreateShapes : ArrayReshape(h, sh)
  \/ \E op \in AluOps, h \in 1..limit, o \in 1..limit : ArrayBinary(op, h, o)
  \/ \E h \in 1..limit : ArrayDataSync(h)

SpecBinary == InitRound /\ [][NextBinary]_vars

\* C20: a binary op on two handles of different shapes or different dtypes
\* fails at the call with an error: no buffer is allocated, no pending
\* executable is created, nothing is dispatched, and the handles (both
\* operands among them) and the buffer tables are as before the call.
C20_BinaryMismatch ==
  [][(/\ lastCall'.op = "binary"
      /\ \/ stShape(arrays[lastCall'.h].st) # stShape(arrays[lastCall'.h2].st)
         \/ arrays[lastCall'.h].dtype # arrays[lastCall'.h2].dtype)
     => /\ lastCall'.err = "Error"
        /\ lastCall'.trace = <<>>
        /\ arrays' = arrays
        /\ buffers' = buffers
        /\ nextSlot' = nextSlot
        /\ pes' = pes
        /\ hist' = hist]_vars

\* float32 * int32 on two handles of one shape, after work has been queued
C20_Witness ==
  /\ lastCall.op = "binary" /\ lastCall.err = "Error"
  /\ stShape(arrays[lastCall.h].st) = stShape(arrays[lastCall.h2].st)
  /\ arrays[lastCall.h].dtype = "float32"
  /\ arrays[lastCall.h2].dtype = "int32"
  /\ DOMAIN buffers["cpu"] # {}

(***************************************************************************)
(* Reshapes to a shape the array does not fit.                             *)
(***************************************************************************)
\* The shapes of test "raises TypeError on incompatible shapes", and two
\* shapes that fit four elements
TryShapes ==
  {<<3, 2>>, <<2, 3>>, <<2, 2, 2>>, <<3, -1>>, <<-1, -1>>, <<2, -1>>, <<4>>}

\* shape does not fit size elements: more than one -1, a -1 that is not a
\* non-negative integer, or another number of elements
Incompatible(size, shape) ==
  LET given == SelectSeq(shape, LAMBDA d : d # -1)
      autos == Len(shape) - Len(given)
  IN \/ autos > 1
     \/ autos = 1 /\ (Prod(given) <= 0 \/ size % Prod(given) # 0)
     \/ autos = 0 /\ Prod(given) # size

\* x.reshape(shape) inside a try block
TryReshape(h, shape) ==
  /\ h \in 1..Len(arrays) /\ arrays[h].alive
  /\ probe = NoProbe
  /\ \E r \in {reshape(arrays, pes, h, shape)} :
       /\ arrays' = r.A
       /\ lastCall' = Call("reshape", arrays[h].backend, h, 0, {},
                           [World EXCEPT !.err = r.err])
       /\ probe' = [op |-> "reshape", h |-> h, arg |-> shape,
                    size |-> stSize(arrays[h].st), err |-> r.err,
                    made |-> Len(r.A) - Len(arrays)]
  /\ UNCHANGED <<rtVars, devices, limit, buffers, nextSlot, hist, shadow, pes,
                 calls, rawCount>>

NextReshape ==
  \/ probe = NoProbe /\ BuildRound
  \/ \E h \in 1..limit, shape \in TryShapes : TryReshape(h, shape)

SpecReshape == InitRound /\ [][NextReshape]_vars

\* C21: a reshape to a shape that does not fit the array (another number of
\* elements, a -1 that cannot be inferred, more than one -1) raises a
\* TypeError and returns no handle.
C21_ReshapeTypeError ==
  (probe.op = "reshape" /\ Incompatible(probe.size, probe.arg)) =>
    /\ probe.err = "TypeError"
    /\ probe.made = 0

(***************************************************************************)
(* The Sort and Argsort routines: the CPU reference of routine.ts and the  *)
(* single-dispatch bitonic sort shader of the WebGPU backend.  A row is a  *)
(* sequence of elements; indices are those of the code, from 0.            *)
(***************************************************************************)
MaxRow == 4       \* longest row that is sorted

\* Float32 NaN, an element that compares with nothing
NaN == 0

\* maxValueWgsl(DType.Int32)
Int32Max == 2147483647

SortDTypes == {"int32", "float32"}

isFloatDtype(dtype) == dtype = "float32"

\* The elements rows are made of: two numbers and the padding value
SortValues(dtype) == {1, 2} \cup {IF isFloatDtype(dtype) THEN NaN ELSE Int32Max}

\* TypedArray.prototype.sort() with no comparator: ascending, NaN last
NumericBefore(a, b) == a # NaN /\ (b = NaN \/ a < b)

\* (a, b) => ar[a] - ar[b]: negative, zero or positive; a NaN difference
\* counts as zero
ArgCompare(ar, a, b) ==
  IF ar[a + 1] = NaN \/ ar[b + 1] = NaN THEN 0
  ELSE IF ar[a + 1] < ar[b + 1] THEN -1
  ELSE IF ar[a + 1] > ar[b + 1] THEN 1
  ELSE 0

\* The comparator orders the row: being tied is transitive
ConsistentCompare(ar) ==
  \A a, b, c \in 0..(Len(ar) - 1) :
    (ArgCompare(ar, a, b) = 0 /\ ArgCompare(ar, b, c) = 0) => ArgCompare(ar, a, c) = 0

\* The stable sort of the indices 0 .. n - 1 under Before(a, b)
StableSort(n, Before(_, _)) ==
  LET rank(k) == Cardinality({j \in 0..(n - 1) :
                    Before(j, k) \/ (~Before(k, j) /\ j < k)})
  IN [i \in 1..n |-> CHOOSE k \in 0..(n - 1) : rank(k) = i - 1]

\* y.subarray(i, i + n).sort() on one row
SortRow(ar) ==
  LET yi == StableSort(Len(ar), LAMBDA a, b : NumericBefore(ar[a + 1], ar[b + 1]))
  IN [i \in 1..Len(ar) |-> ar[yi[i] + 1]]

\* outi.sort((a, b) => ar[a] - ar[b]) on one row: the stable sort when the
\* comparator orders the row, and an order the engine chooses when it does not
ArgsortRow(ar) ==
  IF ConsistentCompare(ar)
    THEN {StableSort(Len(ar), LAMBDA a, b : ArgCompare(ar, a, b) < 0)}
  ELSE Perms(Len(ar))

\* Row k (from 0) of the flat data x of rows of length n
RowOf(x, n, k) == SubSeq(x, k * n + 1, (k + 1) * n)

\* runSort(type, [x], [y]): y
runSort(xs, x) ==
  IF xs = <<>> THEN [err |-> "Error", y |-> <<>>]
  ELSE LET n == xs[Len(xs)]
       IN [err |-> "none",
           y |-> [i \in 1..Len(x) |-> SortRow(RowOf(x, n, (i - 1) \div n))[((i - 1) % n) + 1]]]

\* for (offset = 0; offset < y.length; offset += n): the index rows that can
\* be written from row k on, one after the other
RECURSIVE ArgsortFrom(_, _, _)
ArgsortFrom(x, n, k) ==
  IF k * n >= Len(x) THEN {<<>>}
  ELSE UNION {{row \o rest : row \in rows} :
                rest \in ArgsortFrom(x, n, k + 1), rows \in {ArgsortRow(RowOf(x, n, k))}}

\* runArgsort(type, [x], [y, yi]): the outcomes [y, yi]
runArgsort(xs, x) ==
  IF xs = <<>> THEN {[err |-> "Error", y |-> <<>>, yi |-> <<>>]}
  ELSE LET n == xs[Len(xs)]
       IN {[err |-> "none", yi |-> yi,
            y |-> [i \in 1..Len(x) |-> RowOf(x, n, (i - 1) \div n)[yi[i] + 1]]] :
             yi \in ArgsortFrom(x, n, 0)}

\* Math.ceil(Math.log2(n))
CeilLog2(n) == CHOOSE k \in 0..30 : Pow2(k) >= n /\ (k = 0 \/ Pow2(k - 1) < n)

gridOffsetY == 16384

maxComputeWorkgroupsPerDimension == 65535

calculateGrid_mut(gridSize) ==
  IF gridSize > maxComputeWorkgroupsPerDimension
    THEN <<gridOffsetY, gridSize \div gridOffsetY>>
  ELSE <<gridSize, 1>>

\* calculateGrid(gridSize): [gridX, gridY]
calculateGrid(gridSize) ==
  IF gridSize > maxComputeWorkgroupsPerDimension
    THEN <<gridOffsetY, (gridSize + gridOffsetY - 1) \div gridOffsetY>>
  ELSE <<gridSize, 1>>

\* The workgroups of the grid whose batch, wg_id.x + wg_id.y * gridOffsetY,
\* is batch
WorkgroupsOf(grid, batch) ==
  {wg \in {<<batch - y * gridOffsetY, y>> : y \in 0..(grid[2] - 1)} :
     wg[1] >= 0 /\ wg[1] < grid[1]}

\* device.limits.maxComputeWorkgroupSizeX
maxComputeWorkgroupSizeX == 256

\* padValue: nan() for a float dtype, maxValueWgsl(dtype) otherwise
padValue(dtype) == IF isFloatDtype(dtype) THEN NaN ELSE Int32Max

\* ==, false as soon as an operand is NaN
FloatEq(a, b) == a # NaN /\ b # NaN /\ a = b

\* WGSL min: the operand that is not NaN when one is
FloatMin(a, b) ==
  IF a = NaN THEN b ELSE IF b = NaN THEN a ELSE IF b < a THEN b ELSE a

\* fn compare(a, b) -> bool
compare(dtype, a, b) ==
  IF isFloatDtype(dtype)
    THEN FloatEq(a, FloatMin(a, b)) /\ ~FloatEq(b, FloatMin(a, b))
  ELSE a < b

\* One pass of the inner loop, between two barriers: every thread runs
\* compare_and_swap(i, j, ascending) on its own pair
BitonicStep(dtype, sh, stage, actual_step, numThreads) ==
  LET half_block == Pow2(actual_step)
      I(tid) == (tid \div half_block) * half_block * 2 + (tid % half_block)
      ascending(i) == ((i \div Pow2(stage + 1)) % 2) = 0
      should_swap(i, j) ==
        IF ascending(i) THEN compare(dtype, sh.vals[j + 1], sh.vals[i + 1])
        ELSE compare(dtype, sh.vals[i + 1], sh.vals[j + 1])
      swapped == {I(tid) : tid \in {t \in 0..(numThreads - 1) :
                                       should_swap(I(t), I(t) + half_block)}}
      From(k) == IF k \in swapped THEN k + half_block
                 ELSE IF (k - half_block) \in swapped THEN k - half_block
                 ELSE k
  IN [vals |-> [k \in 1..Len(sh.vals) |-> sh.vals[From(k - 1) + 1]],
      idx |-> [k \in 1..Len(sh.idx) |-> sh.idx[From(k - 1) + 1]]]

\* for (stage ...) for (step = stage + 1; step > 0; step--)
RECURSIVE BitonicLoop(_, _, _, _, _, _)
BitonicLoop(dtype, sh, stage, step, numStages, numThreads) ==
  IF stage >= numStages THEN sh
  ELSE IF step = 0
    THEN BitonicLoop(dtype, sh, stage + 1, stage + 2, numStages, numThreads)
  ELSE CHOOSE r \in {BitonicLoop(dtype, s, stage, step - 1, numStages, numThreads) :
                       s \in {BitonicStep(dtype, sh, stage, step - 1, numThreads)}} : TRUE

\* What a write to an index past the end of a workgroup array does
OobWrites == {"discard", "clamp"}

\* The shared memory after the loads.  Thread tid writes idx0 = 2 tid and
\* idx1 = 2 tid + 1; with paddedN = 1 its idx1 is past the end of the arrays.
LoadShared(dtype, ar, paddedN, numThreads, oob) ==
  LET n == Len(ar)
      Loaded(k) == IF k < n THEN ar[k + 1] ELSE padValue(dtype)
      last == 2 * numThreads - 1
      Writer(k) == IF last >= paddedN /\ oob = "clamp" /\ k = paddedN - 1 THEN last ELSE k
  IN [vals |-> [k \in 1..paddedN |-> Loaded(Writer(k - 1))],
      idx |-> [k \in 1..paddedN |-> Writer(k - 1)]]

\* One workgroup of the shader: the row it writes to output
BitonicRow(dtype, ar, outputIndices, oob) ==
  LET n == Len(ar)
      paddedN == Pow2(CeilLog2(n))
      numThreads == (paddedN + 1) \div 2
      numStages == CeilLog2(paddedN)
  IN CHOOSE out \in {[k \in 1..n |-> IF outputIndices THEN sh.idx[k] ELSE sh.vals[k]] :
       sh \in {BitonicLoop(dtype, LoadShared(dtype, ar, paddedN, numThreads, oob),
                           0, 1, numStages, numThreads)}} : TRUE

\* bitonicSortShader(device, dtype, n, batches, outputIndices), dispatched
\* over calculateGrid(batches) on the input x: the output buffer
bitonicSortShader(dtype, n, batches, outputIndices, x, oob) ==
  LET paddedN == Pow2(CeilLog2(n))
      numThreads == (paddedN + 1) \div 2
      grid == calculateGrid(batches)
      Written(batch) ==
        IF WorkgroupsOf(grid, batch) = {} THEN [k \in 1..n |-> 0]
        ELSE BitonicRow(dtype, RowOf(x, n, batch), outputIndices, oob)
  IN IF numThreads > maxComputeWorkgroupSizeX THEN [err |-> "Error", out |-> <<>>]
     ELSE CHOOSE r \in {[err |-> "none",
                         out |-> [i \in 1..(batches * n) |->
                                    rows[((i - 1) \div n) + 1][((i - 1) % n) + 1]]] :
            rows \in {[b \in 1..batches |-> Written(b - 1)]}} : TRUE

\* The shapes that are sorted along their last axis
SortShapes == {<<n>> : n \in 1..MaxRow} \cup {<<2, 2>>}

\* runCpuRoutine(routine, [x], outputs) for Sort and for Argsort
SortCpu(name) ==
  /\ probe.op = "input"
  /\ \E r \in IF name = "Sort"
                THEN {[err |-> s.err, y |-> s.y, yi |-> <<>>] :
                        s \in {runSort(probe.shape, probe.x)}}
              ELSE runArgsort(probe.shape, probe.x) :
       probe' = [op |-> "cpu", name |-> name, dtype |-> probe.dtype,
                 shape |-> probe.shape, x |-> probe.x, cpu |-> r]
  /\ UNCHANGED <<arrayVars, rtVars>>

\* The shader of createRoutineShader(device, routine) run on the same input
SortWebgpu(oob) ==
  /\ probe.op = "cpu"
  /\ LET n == probe.shape[Len(probe.shape)]
         batches == Prod(SubSeq(probe.shape, 1, Len(probe.shape) - 1))
     IN probe' = [probe EXCEPT !.op = "both"] @@
                 [oob |-> oob,
                  gpu |-> bitonicSortShader(probe.dtype, n, batches,
                                            probe.name = "Argsort", probe.x, oob)]
  /\ UNCHANGED <<arrayVars, rtVars>>

InitSort ==
  /\ ArrayIdle /\ RtIdle
  /\ \E dtype \in SortDTypes, shape \in SortShapes :
     \E x \in [1..Prod(shape) -> SortValues(dtype)] :
       probe = [op |-> "input", dtype |-> dtype, shape |-> shape, x |-> x]

NextSort ==
  \/ \E name \in {"Sort", "Argsort"} : SortCpu(name)
  \/ \E oob \in OobWrites : SortWebgpu(oob)

SpecSort == InitSort /\ [][NextSort]_vars

\* The rows of the routine that probe holds
SortRows ==
  LET n == probe.shape[Len(probe.shape)]
  IN 0..((Len(probe.x) \div n) - 1)

\* C22: on every input the WebGPU Sort and Argsort shaders write what the CPU
\* reference routines write: the sorted values for Sort and, for Argsort,
\* the indices of the stable sort, each index of the row once.
C22_WebgpuSortMatchesCpu ==
  probe.op = "both" =>
    LET n == probe.shape[Len(probe.shape)]
    IN /\ probe.gpu.err = probe.cpu.err
       /\ probe.name = "Sort" => probe.gpu.out = probe.cpu.y
       /\ probe.name = "Argsort" =>
            /\ probe.gpu.out = probe.cpu.yi
            /\ \A k \in SortRows : Range(RowOf(probe.gpu.out, n, k)) = 0..(n - 1)

\* C25: CPU Argsort writes, for each row, a permutation yi of 0 .. n - 1 and
\* y[i] = x[yi[i]], y ascending, equal values in their original order, and y
\* is what CPU Sort writes for the row.
C25_CpuArgsort ==
  (probe.op \in {"cpu", "both"} /\ probe.name = "Argsort") =>
    LET n == probe.shape[Len(probe.shape)]
    IN /\ probe.cpu.err = "none"
       /\ probe.cpu.y = runSort(probe.shape, probe.x).y
       /\ \A k \in SortRows :
            LET x == RowOf(probe.x, n, k)
                y == RowOf(probe.cpu.y, n, k)
                yi == RowOf(probe.cpu.yi, n, k)
            IN /\ Range(yi) = 0..(n - 1)
               /\ \A i \in 1..n : y[i] = x[yi[i] + 1]
               /\ \A i, j \in 1..n : i < j => ~NumericBefore(y[j], y[i])
               /\ \A i, j \in 1..n : (i < j /\ y[i] = y[j]) => yi[i] < yi[j]

(***************************************************************************)
(* Grid tiling: the workgroups dispatched for a number of batches.         *)
(***************************************************************************)
MaxGrid == 3      \* grid sizes taken next to each boundary

\* Workgroup counts at both ends of the one-dimensional range, around whole
\* rows of the two-dimensional grid and up to the largest grid
GridSizes ==
  UNION {{k,
          maxComputeWorkgroupsPerDimension + 1 - k,
          maxComputeWorkgroupsPerDimension + k,
          gridOffsetY * (k + 3),
          gridOffsetY * (k + 3) + k,
          gridOffsetY * maxComputeWorkgroupsPerDimension + 1 - k} : k \in 1..MaxGrid}

\* Batch indices at the ends of the rows of the grid and around gridSize
GridBatches(gridSize) ==
  {b \in {0, 1, gridOffsetY - 1, gridOffsetY, maxComputeWorkgroupsPerDimension,
          gridSize - gridOffsetY, gridSize - 2, gridSize - 1, gridSize,
          gridSize + 1} : b >= 0}

\* passes: [{ grid: calculateGrid(batches) }]
GridFor(gridSize) ==
  /\ probe = NoProbe
  /\ probe' = [op |-> "grid", n |-> gridSize, grid |-> calculateGrid(gridSize)]
  /\ UNCHANGED <<arrayVars, rtVars>>

\* The workgroups that compute batch, and whether they get past
\* if (batch >= batches) { return; }
GridBatch(batch) ==
  /\ probe.op = "grid"
  /\ probe' = [op |-> "batch", n |-> probe.n, grid |-> probe.grid, batch |-> batch,
               wgs |-> WorkgroupsOf(probe.grid, batch),
               writes |-> ~(batch >= probe.n)]
  /\ UNCHANGED <<arrayVars, rtVars>>

InitGrid == ArrayIdle /\ RtIdle /\ probe = NoProbe

NextGrid ==
  \/ \E gridSize \in GridSizes : GridFor(gridSize)
  \/ probe.op = "grid" /\ \E batch \in GridBatches(probe.n) : GridBatch(batch)

SpecGrid == InitGrid /\ [][NextGrid]_vars

\* C24: for a workgroup count n >= 1, calculateGrid(n) has both components
\* between 1 and 65535, every batch below n is computed by exactly one
\* workgroup of the grid, and a workgroup whose batch is n or more writes
\* nothing.
C24_GridCoversOnce ==
  probe.op \in {"grid", "batch"} =>
    /\ probe.grid[1] \in 1..maxComputeWorkgroupsPerDimension
    /\ probe.grid[2] \in 1..maxComputeWorkgroupsPerDimension
    /\ probe.op = "batch" =>
         /\ probe.batch < probe.n => (Cardinality(probe.wgs) = 1 /\ probe.writes)
         /\ probe.batch >= probe.n => ~probe.writes

\* The last batch of the largest grid, computed by its last workgroup
C24_Witness ==
  /\ probe.op = "batch"
  /\ probe.n = gridOffsetY * maxComputeWorkgroupsPerDimension
  /\ probe.batch = probe.n - 1
  /\ probe.wgs = {<<gridOffsetY - 1, maxComputeWorkgroupsPerDimension - 1>>}
  /\ probe.writes


(***************************************************************************)
(* Nested dictionaries: toNested and fromNested of the safetensors module. *)
(* A key is the sequence of its dot-separated parts.  A nested value is    *)
(* the function from the property paths that exist in it to their nodes:   *)
(* an array, a plain object or a leaf; an array element i is the property  *)
(* named by the decimal of i.                                              *)
(***************************************************************************)
MaxKeys == 2      \* entries of a flat dictionary

Parts == {"a", "0", "1", "01"}
Keys ==
  {<<p>> : p \in Parts} \cup {<<p, q>> : p, q \in Parts}
    \cup {<<"a", n, "a">> : n \in {"0", "1"}}
\* a number (a primitive) and a tensor (an instance of a class)
LeafValues == {"number", "tensor"}

\* const isNumeric = (s) => /^\d+$/.test(s)
isNumeric(s) == s \in {"0", "1", "01"}
\* parseInt(part, 10)
parseInt(s) == IF s = "0" THEN 0 ELSE 1
\* `${i}`, the property name of array element i
IndexName(i) == IF i = 0 THEN "0" ELSE "1"
\* The property names that are array indices
IsIndex(name) == name \in {"0", "1"}

Children(T, path) ==
  {p[Len(p)] : p \in {q \in DOMAIN T : Len(q) = Len(path) + 1
                                       /\ SubSeq(q, 1, Len(path)) = path}}
\* obj.length
ArrayLength(T, path) ==
  LET idx == {parseInt(name) : name \in {c \in Children(T, path) : IsIndex(c)}}
  IN IF idx = {} THEN 0 ELSE 1 + CHOOSE m \in idx : \A k \in idx : k <= m

\* currentObj[currentPart] = node: the old value of the property, with all
\* that was below it, is replaced
SetProp(T, path, node) ==
  LET keep == {q \in DOMAIN T : ~(Len(q) > Len(path)
                                  /\ SubSeq(q, 1, Len(path)) = path)}
  IN [q \in keep \cup {path} |-> IF q = path THEN node ELSE T[q]]

\* Assigning a property of a primitive throws in module code
Primitive(T, path) == T[path].kind = "leaf" /\ T[path].val = "number"

\* The inner loop of toNested over parts[i..]: cur is the path of currentObj
\* and currentPart the property it names (a number names its decimal)
RECURSIVE NestParts(_, _, _, _, _, _)
NestParts(T, cur, currentPart, parts, i, value) ==
  LET child == Append(cur, currentPart) IN
  IF Primitive(T, cur) /\ (i <= Len(parts) => child \notin DOMAIN T)
    THEN [err |-> "TypeError", T |-> T]
  ELSE IF i > Len(parts)
    THEN [err |-> "none", T |-> SetProp(T, child, [kind |-> "leaf", val |-> value])]
  ELSE CHOOSE r \in
         {NestParts(T1, child,
                    IF isNumeric(parts[i]) THEN IndexName(parseInt(parts[i])) ELSE parts[i],
                    parts, i + 1, value) :
            T1 \in {IF child \in DOMAIN T THEN T
                    ELSE SetProp(T, child,
                           [kind |-> IF isNumeric(parts[i]) THEN "array" ELSE "object",
                            val |-> "none"])}} : TRUE

\* Object.entries(tensors): the integer keys in ascending order, then the
\* other keys in the order they were inserted
Entries(flat) ==
  LET int == SelectSeq(flat, LAMBDA e : Len(e.key) = 1 /\ IsIndex(e.key[1]))
      str == SelectSeq(flat, LAMBDA e : ~(Len(e.key) = 1 /\ IsIndex(e.key[1])))
  IN IF Len(int) = 2 /\ int[1].key[1] = "1" THEN <<int[2], int[1]>> \o str
     ELSE int \o str

RECURSIVE NestEntries(_, _, _)
NestEntries(T, entries, k) ==
  IF k > Len(entries) THEN [err |-> "none", T |-> T]
  ELSE CHOOSE r \in
         {IF r1.err # "none" THEN r1 ELSE NestEntries(r1.T, entries, k + 1) :
            r1 \in {NestParts(T, <<>>, entries[k].key[1], entries[k].key, 2,
                              entries[k].val)}} : TRUE

toNested(flat) ==
  LET isTopLevelArray ==
        Len(flat) > 0 /\ \A k \in 1..Len(flat) : isNumeric(flat[k].key[1])
      result == [p \in {<<>>} |->
                   [kind |-> IF isTopLevelArray THEN "array" ELSE "object",
                    val |-> "none"]]
  IN NestEntries(result, Entries(flat), 1)

isLeaf(node) == node.kind = "leaf"

\* flatten(obj, currentPrefix) of fromNested, as the set of the entries it
\* adds to result; the prefix is the path of obj
RECURSIVE flatten(_, _)
flatten(T, path) ==
  IF isLeaf(T[path]) THEN {[key |-> path, val |-> T[path].val]}
  ELSE IF T[path].kind = "array"
    THEN UNION {IF Append(path, IndexName(i)) \in DOMAIN T
                  THEN flatten(T, Append(path, IndexName(i)))
                  ELSE {[key |-> Append(path, IndexName(i)), val |-> "undefined"]} :
                i \in 0..(ArrayLength(T, path) - 1)}
  ELSE UNION {flatten(T, Append(path, name)) : name \in Children(T, path)}

fromNested(T) == flatten(T, <<>>)

\* flat[key] = value
NestedPut(key, value) ==
  /\ probe.op \in {"none", "flat"}
  /\ \E flat \in {IF probe.op = "flat" THEN probe.flat ELSE <<>>} :
       /\ Len(flat) < MaxKeys
       /\ \A k \in 1..Len(flat) : flat[k].key # key
       /\ probe' = [op |-> "flat", flat |-> Append(flat, [key |-> key, val |-> value])]
  /\ UNCHANGED <<arrayVars, rtVars>>

\* fromNested(toNested(flat))
NestedRound ==
  /\ probe.op = "flat"
  /\ \E n \in {toNested(probe.flat)} :
       probe' = [op |-> "nested", flat |-> probe.flat, err |-> n.err,
                 back |-> IF n.err = "none" THEN fromNested(n.T) ELSE {}]
  /\ UNCHANGED <<arrayVars, rtVars>>

InitNested == ArrayIdle /\ RtIdle /\ probe = NoProbe
NextNested ==
  \/ \E key \in Keys, value \in LeafValues : NestedPut(key, value)
  \/ NestedRound
SpecNested == InitNested /\ [][NextNested]_vars

\* C23: fromNested(toNested(flat)) has exactly the keys and values of flat,
\* for every flat dictionary with non-empty dot-separated keys
C23_NestedRoundTrip ==
  probe.op = "nested" =>
    /\ probe.err = "none"
    /\ probe.back = Range(probe.flat)


(***************************************************************************)
(* The upcast loop of tuneWebgpu, one round per step.                      *)
(***************************************************************************)
MaxSide == 8      \* output axes of 32 .. 31 + MaxSide elements

\* out[a] = x[a, 0] + x[a, 1]: the sum of the rows of a matrix, no stride is 0
TuneContiguous ==
  SumKernel(ViewOver(0, fromShape(<<UpcastThreshold, 2>>)), UpcastThreshold, 2)

\* Output shapes around the threshold, and two that are still over it after
\* their first upcast
UpcastShapes ==
  {<<31 + a, 31 + b>> : a, b \in 1..MaxSide} \cup {<<108, 36>>, <<96, 35>>}

\* out[a, b] = x[0] + x[1] for every a, b: the input has stride 0 on both
\* output axes
UpcastKernels ==
  (TuneKernels \ {TuneOuter}) \cup {TuneContiguous} \cup
    {SumKernel(ViewOver(0, AlongAxis(2, 3, shape \o <<2>>)), Prod(shape), 2) :
       shape \in UpcastShapes}

\* Steps 1 and 2 of tuneWebgpu let the kernel through to step 3
ReachesLoop(kernel) ==
  LET globalViews == collectViews(kernel.exp)
      shape == stShape(globalViews[1].st)
      expectedSrc == unravelAlu(SubSeq(shape, 1, Len(shape) - 1), AluGidx) \o <<AluRidx>>
  IN /\ kernel.reduction # NoReduction
     /\ globalViews # <<>>
     /\ \A k \in 1..Len(globalViews) :
          globalViews[k].src # <<>> /\ globalViews[k].src = expectedSrc
     /\ shape[Len(shape)] = kernel.reduction.size
     /\ \A k \in 1..Len(globalViews) : stShape(globalViews[k].st) = shape

\* tuneWebgpu(kernel) up to the first test of the while condition
UpcastEnter(kernel) ==
  /\ probe = NoProbe
  /\ IF ReachesLoop(kernel)
       THEN \E views \in {collectViews(kernel.exp)} :
              probe' = [op |-> "while", kernel |-> kernel,
                        sts |-> [k \in 1..Len(views) |-> views[k].st],
                        dim |-> TuneDims(stShape(views[1].st)),
                        upcastedAxis |-> {}]
       ELSE probe' = [op |-> "returned", kernel |-> kernel,
                      err |-> tuneWebgpu(kernel, FALSE).err]
  /\ UNCHANGED <<arrayVars, rtVars>>

\* One round of the while loop: the condition holds, the choices are
\* collected and the best one, if there is one, is applied
UpcastRound ==
  /\ probe.op = "while"
  /\ Prod(SubSeq(stShape(probe.dim.st), 1, probe.dim.groups)) >= UpcastThreshold
  /\ \E choices \in {UpcastChoices(probe.sts, probe.dim, probe.upcastedAxis)} :
       IF choices = {} THEN probe' = probe
       ELSE \E best \in {CHOOSE c \in choices : \A d \in choices : lexLeq(c, d)} :
              \E r \in {applyUpcast(probe.dim, best[3], best[4])} :
                IF r.err # "none"
                  THEN probe' = [op |-> "returned", kernel |-> probe.kernel,
                                 err |-> r.err]
                  ELSE probe' = [probe EXCEPT !.dim = r.dim,
                                   !.upcastedAxis = @ \cup {best[3]}]
  /\ UNCHANGED <<arrayVars, rtVars>>

\* The while condition fails: step 4 returns the plan
UpcastExit ==
  /\ probe.op = "while"
  /\ Prod(SubSeq(stShape(probe.dim.st), 1, probe.dim.groups)) < UpcastThreshold
  /\ \E lax \in BOOLEAN :
       probe' = [op |-> "returned", kernel |-> probe.kernel,
                 err |-> TunePlan(probe.kernel, probe.dim, lax).err]
  /\ UNCHANGED <<arrayVars, rtVars>>

InitUpcast == ArrayIdle /\ RtIdle /\ probe = NoProbe
NextUpcast ==
  \/ \E kernel \in UpcastKernels : UpcastEnter(kernel)
  \/ UpcastRound
  \/ UpcastExit
\* The loop runs on: a round that can change the state is taken
SpecUpcast == InitUpcast /\ [][NextUpcast]_vars /\ WF_vars(NextUpcast)

\* C26: tuneWebgpu terminates on every reduction kernel: the upcast loop is
\* left after finitely many rounds and the call returns
C26_UpcastTerminates == (probe.op = "while") ~> (probe.op = "returned")


(***************************************************************************)
(* The order of the pending sets.                                          *)
(***************************************************************************)
\* The executables that write slot s and are not submitted
Producers(s) == {q \in 1..Len(pes) : s \in Range(pes[q].outputs) /\ ~pes[q].submitted}

\* Executable q is listed in ps before position i
ListedBefore(ps, q, i) == \E j \in 1..(i - 1) : ps[j] = q

\* C27: in the pending set of every handle, in iteration order, the
\* not-yet-submitted producer of every buffer an executable reads is in the
\* set and comes before that executable; the producer of the buffer that
\* backs the handle is in the set too.
C27_PendingOrder ==
  \A h \in 1..Len(arrays) :
    arrays[h].alive =>
      /\ \A i \in 1..Len(arrays[h].pendingSet) :
           \A s \in Range(pes[arrays[h].pendingSet[i]].inputs) :
             \A q \in Producers(s) : ListedBefore(arrays[h].pendingSet, q, i)
      /\ ~arrays[h].source.isExp =>
           Producers(arrays[h].source.slot) \subseteq Range(arrays[h].pendingSet)

\* A binary op has merged the pending sets of its operands, and an
\* executable of the result reads what an earlier one of the set writes
C27_Witness ==
  /\ lastCall.op = "binary" /\ lastCall.err = "none"
  /\ \E i, j \in 1..Len(arrays[Len(arrays)].pendingSet) :
       /\ i < j
       /\ Range(pes[arrays[Len(arrays)].pendingSet[i]].outputs)
            \cap Range(pes[arrays[Len(arrays)].pendingSet[j]].inputs) # {}
  /\ \E h \in 1..(Len(arrays) - 1) : Len(arrays[h].pendingSet) >= 2


\* The executables that a call hands to backend.prepare or
\* backend.prepareSync, in the order of the calls
PrepareCalls(t) ==
  LET d == SelectSeq(t, LAMBDA e : e[1] = "prepare") IN [i \in 1..Len(d) |-> d[i][2]]

\* No prepare of executable p has been started
NeverPrepared(p) == p > Len(pes) \/ (~pes[p].prepared /\ pes[p].promise = "none")

\* C28: the backend's prepare or prepareSync is invoked at most once for a
\* pending executable: a data() or dataSync() call invokes it only for
\* executables for which it was never invoked, and once for each of them.
C28_PrepareOnce ==
  [][lastCall'.op \in {"dataSync", "data.start"} =>
       \A i \in 1..Len(PrepareCalls(lastCall'.trace)) :
         /\ NeverPrepared(PrepareCalls(lastCall'.trace)[i])
         /\ \A j \in 1..(i - 1) :
              PrepareCalls(lastCall'.trace)[j] # PrepareCalls(lastCall'.trace)[i]]_vars


(***************************************************************************)
(* Handles on two backends: arrayFromData, zeros and ones take the backend *)
(* as an option, so one program holds handles of both.                     *)
(***************************************************************************)
InitMixed ==
  /\ devices = Backends
  /\ limit = MaxSync
  /\ buffers = [b \in Backends |-> <<>>]
  /\ nextSlot = [b \in Backends |-> 1]
  /\ hist = [b \in Backends |-> <<>>]
  /\ shadow = [b \in Backends |-> <<>>]
  /\ arrays = <<>>
  /\ pes = <<>>
  /\ calls = EmptyBag
  /\ lastCall = NoCall
  /\ rawCount = 0
  /\ ExtIdle

SpecMixed == InitMixed /\ [][NextSync]_vars

\* C29: a binary op that builds a pending executable takes every buffer of
\* it from one backend: an operand that is backed by a buffer lives on the
\* backend that allocates the output and that the executable is later
\* dispatched on.
C29_OneBackend ==
  [][(lastCall'.op = "binary" /\ lastCall'.err = "none" /\ Len(pes') > Len(pes)) =>
       \A o \in {lastCall'.h, lastCall'.h2} :
         ~arrays[o].source.isExp => arrays[o].backend = arrays'[Len(arrays')].backend]_vars


\* The slots of backend b that were allocated and freed
Freed(b) == DOMAIN hist[b] \ DOMAIN buffers[b]

\* C30: malloc returns an id that no earlier malloc of the backend returned,
\* a freed id never comes back into the buffer table, and a use of a freed
\* id fails with SlotError.
C30_NoSlotReuse ==
  [][/\ (lastCall'.op = "malloc" /\ lastCall'.err = "none") =>
          \A s \in lastCall'.slots :
            /\ s \notin DOMAIN hist[lastCall'.b]
            /\ s \in DOMAIN buffers'[lastCall'.b]
     /\ \A b \in Backends : Freed(b) \cap DOMAIN buffers'[b] = {}
     /\ (lastCall'.op \in UseOps /\ lastCall'.slots \cap Freed(lastCall'.b) # {}) =>
          lastCall'.err = "SlotError"]_vars

\* malloc has returned a new id after another slot was freed
C30_Witness ==
  /\ lastCall.op = "malloc" /\ lastCall.err = "none"
  /\ Freed(lastCall.b) # {}
  /\ \A s \in lastCall.slots : \A t \in Freed(lastCall.b) : t < s

====
